---- MODULE Spec2Model ----
(***************************************************************************)
(* A model of the resolution, verification and orchestration core of reap  *)
(* (src/src/core.rs): resolve_package_source, install_with_priority,       *)
(* install_with_priority_enhanced, install_aur_native, detect_source and   *)
(* the bulk operations parallel_install, parallel_upgrade and              *)
(* handle_install_parallel.                                                *)
(*                                                                         *)
(* Functions of the crate's other modules (tap, aur, pacman, flatpak, hooks, *)
(* trust, utils) and subprocesses are external: a call to one is an entry  *)
(* of the call trace and its answer is drawn from the answers it can give. *)
(***************************************************************************)
EXTENDS Integers, Sequences, FiniteSets, TLC

VARIABLES
    renv,       \* resolver: the arguments and the environment's answers
    rresult,    \* resolver: what resolve_package_source returned
    rpc,        \* resolver: "idle" | "call" | "done" | "repeated"
    rrepeat,    \* resolver: what a second call in the same environment returned
    path,       \* install: "primary" (install_with_priority) | "enhanced"
    opts,       \* install: the caller's InstallOptions
    pc,         \* install: the position of the call
    trace,      \* install: the log lines pushed and the external calls made, in order
    resolved,   \* install: what resolve_package_source returned to the call
    tapenv,     \* install: the tap's state on disk, once the tap branch has read it
    overlay,    \* install: the active profile and the trust score (enhanced path)
    backend,    \* install: how the backend install ended: "none" | "ok" | "err"
    bulk,       \* bulk: the operation: parallel_install | parallel_upgrade | handle_install_parallel
    npkgs,      \* bulk: pkgs.len(); package t of the list is task t
    cfg_parallel, \* bulk: the configured parallelism (config.parallel, the max_parallel argument)
    permits,    \* bulk: the semaphore's free permits
    spawned,    \* bulk: how many iterations of the spawning loop have run
    tstate,     \* bulk: each task: "unspawned" | "spawned" | "running" | "ok" | "panicked"
    mainpc,     \* bulk: the caller: "loop" | "join" | "returned"
    out,        \* bulk: the lines the tasks and the caller wrote to the shared sink
    pb_pos,     \* bulk: the progress bar's position
    clock,      \* aur: the local time, in half seconds
    acall,      \* aur: each install_aur_native call: its arguments, position, steps and result
    fs,         \* aur: the working directories that exist under the cache directory
    cli,        \* command: the function entered, its arguments and the lists it is given
    cpc,        \* command: the position of the call
    clocal,     \* command: the call's local variables
    cout,       \* command: the external calls made and the lines printed, in order
    cret        \* command: "none" | "ok" | "err": what the call returned

varsR == <<renv, rresult, rpc, rrepeat>>

varsI == <<path, opts, pc, trace, resolved, tapenv, overlay, backend>>

varsB == <<bulk, npkgs, cfg_parallel, permits, spawned, tstate, mainpc, out, pb_pos>>

varsA == <<clock, acall, fs>>

vars == <<renv, rresult, rpc, rrepeat, path, opts, pc, trace, resolved, tapenv, overlay, backend,
          bulk, npkgs, cfg_parallel, permits, spawned, tstate, mainpc, out, pb_pos,
          clock, acall, fs, cli, cpc, clocal, cout, cret>>

varsC == <<cli, cpc, clocal, cout, cret>>

(***************************************************************************)
(* Option<T>                                                               *)
(***************************************************************************)
None == [some |-> FALSE]
Some(v) == [some |-> TRUE, val |-> v]

(***************************************************************************)
(* enum Source (core.rs 71-80).  The unit variants carry an empty name.    *)
(***************************************************************************)
Aur == [kind |-> "Aur", name |-> ""]
Flatpak == [kind |-> "Flatpak", name |-> ""]
Pacman == [kind |-> "Pacman", name |-> ""]
BinaryRepo(repo) == [kind |-> "BinaryRepo", name |-> repo]
Custom(tap) == [kind |-> "Custom", name |-> tap]

\* Source::label
label(source) ==
    CASE source.kind = "Aur" -> "[AUR]"
      [] source.kind = "Pacman" -> "[PACMAN]"
      [] source.kind = "Flatpak" -> "[FLATPAK]"
      [] source.kind = "ChaoticAUR" -> "[CHAOTIC-AUR]"
      [] source.kind = "GhostctlAUR" -> "[GHOSTCTL-AUR]"
      [] source.kind = "BinaryRepo" -> "[BINREPO]"
      [] source.kind = "Custom" -> "[CUSTOM]"

(***************************************************************************)
(* The environment of one resolve_package_source call.                     *)
(***************************************************************************)
\* The taps a tap registry can hold: name and priority.  One tap's priority
\* is below the priority of every backend, one above.
Taps == { [name |-> "alpha", priority |-> 50], [name |-> "beta", priority |-> 10] }

Backends == {"pacman", "aur", "flatpak"}

\* Vec<String>::contains
Contains(seq, x) == \E i \in 1..Len(seq) : seq[i] = x

\* config.backend_order: every sequence of backend names without repetition.
BackendOrders ==
    { s \in UNION { [1..n -> Backends] : n \in 0..Cardinality(Backends) } :
        \A i, j \in 1..Len(s) : i # j => s[i] # s[j] }

\* `flatpak search <pkg>`: the command cannot be run, exits non-zero, exits
\* zero with nothing on stdout, or exits zero with a result.
FlatpakSearchOutcomes == {"err", "failed", "empty", "hit"}

ResolveEnvs ==
    [ tap : {None} \cup { Some(t) : t \in Taps },   \* find_tap_for_pkg(pkg, &taps, forced_tap)
      backend_order : BackendOrders,               \* config.backend_order
      in_core : BOOLEAN,                           \* repo_has_package(pkg, "core")
      in_extra : BOOLEAN,                          \* repo_has_package(pkg, "extra")
      in_aur : BOOLEAN,                            \* aur_search_results(pkg) holds r.name == pkg
      flatpak : FlatpakSearchOutcomes ]

\* The Flatpak test of step 4: Ok(out), out.status.success(), stdout not empty.
flatpak_search_hit(output) == output = "hit"

\* resolve_package_source with steps 2 and 3 exchanged.
resolve_package_source_aur_first(e) ==
    IF e.tap.some
    THEN Some([source |-> Custom(e.tap.val.name), tap_name |-> Some(e.tap.val.name),
               prio |-> e.tap.val.priority, tap |-> Some(e.tap.val)])
    ELSE IF Contains(e.backend_order, "aur") /\ e.in_aur
    THEN Some([source |-> Aur, tap_name |-> None, prio |-> 10, tap |-> None])
    ELSE IF Contains(e.backend_order, "pacman") /\ (e.in_core \/ e.in_extra)
    THEN Some([source |-> Pacman, tap_name |-> None, prio |-> 20, tap |-> None])
    ELSE IF Contains(e.backend_order, "flatpak") /\ flatpak_search_hit(e.flatpak)
    THEN Some([source |-> Flatpak, tap_name |-> None, prio |-> 1, tap |-> None])
    ELSE None

\* resolve_package_source without the backend_order test of step 3.
resolve_package_source_ungated(e) ==
    IF e.tap.some
    THEN Some([source |-> Custom(e.tap.val.name), tap_name |-> Some(e.tap.val.name),
               prio |-> e.tap.val.priority, tap |-> Some(e.tap.val)])
    ELSE IF Contains(e.backend_order, "pacman") /\ (e.in_core \/ e.in_extra)
    THEN Some([source |-> Pacman, tap_name |-> None, prio |-> 20, tap |-> None])
    ELSE IF e.in_aur
    THEN Some([source |-> Aur, tap_name |-> None, prio |-> 10, tap |-> None])
    ELSE IF Contains(e.backend_order, "flatpak") /\ flatpak_search_hit(e.flatpak)
    THEN Some([source |-> Flatpak, tap_name |-> None, prio |-> 1, tap |-> None])
    ELSE None

\* A resolver that keeps state between calls: its second call tries the AUR
\* before pacman.
resolve_package_source_stateful(e) ==
    IF rpc = "done" THEN resolve_package_source_aur_first(e)
    ELSE IF e.tap.some
    THEN Some([source |-> Custom(e.tap.val.name), tap_name |-> Some(e.tap.val.name),
               prio |-> e.tap.val.priority, tap |-> Some(e.tap.val)])
    ELSE IF Contains(e.backend_order, "pacman") /\ (e.in_core \/ e.in_extra)
    THEN Some([source |-> Pacman, tap_name |-> None, prio |-> 20, tap |-> None])
    ELSE IF Contains(e.backend_order, "aur") /\ e.in_aur
    THEN Some([source |-> Aur, tap_name |-> None, prio |-> 10, tap |-> None])
    ELSE IF Contains(e.backend_order, "flatpak") /\ flatpak_search_hit(e.flatpak)
    THEN Some([source |-> Flatpak, tap_name |-> None, prio |-> 1, tap |-> None])
    ELSE None

\* resolve_package_source: Option<(Source, Option<String>, u32, Option<Tap>)>
resolve_package_source(e) ==
    IF e.tap.some
    THEN Some([source |-> Custom(e.tap.val.name), tap_name |-> Some(e.tap.val.name),
               prio |-> e.tap.val.priority, tap |-> Some(e.tap.val)])
    ELSE IF Contains(e.backend_order, "pacman") /\ (e.in_core \/ e.in_extra)
    THEN Some([source |-> Pacman, tap_name |-> None, prio |-> 20, tap |-> None])
    ELSE IF Contains(e.backend_order, "aur") /\ e.in_aur
    THEN Some([source |-> Aur, tap_name |-> None, prio |-> 10, tap |-> None])
    ELSE IF Contains(e.backend_order, "flatpak") /\ flatpak_search_hit(e.flatpak)
    THEN Some([source |-> Flatpak, tap_name |-> None, prio |-> 1, tap |-> None])
    ELSE None

(***************************************************************************)
(* detect_source (core.rs 548-578).                                        *)
(***************************************************************************)
\* get_enabled_binary_repos(): the repo sections of /etc/pacman.conf it keeps,
\* each with the answer of repo_has_package(pkg, repo).
BinaryRepoNames == {"chaotic-aur", "ghostctl-aur"}

EnabledRepoLists ==
    UNION { [1..n -> [name : BinaryRepoNames, has : BOOLEAN]] : n \in 0..1 }

DetectEnvs ==
    [ repo_has : BOOLEAN,               \* repo_has_package(pkg, repo_name)
      enabled : EnabledRepoLists,       \* get_enabled_binary_repos()
      in_aur : BOOLEAN,
      flatpak : FlatpakSearchOutcomes ]

\* The first repo of the list that has the package (the for loop 557-561).
RECURSIVE first_enabled_hit(_)
first_enabled_hit(repos) ==
    IF repos = <<>> THEN None
    ELSE IF Head(repos).has THEN Some(BinaryRepo(Head(repos).name))
    ELSE first_enabled_hit(Tail(repos))

detect_source(repo, binary_only, d) ==
    LET source_form ==
            IF ~binary_only
            THEN IF d.in_aur THEN Some(Aur)
                 ELSE IF flatpak_search_hit(d.flatpak) THEN Some(Flatpak)
                 ELSE None
            ELSE None
    IN  IF repo.some
        THEN IF d.repo_has THEN Some(BinaryRepo(repo.val))
             ELSE IF binary_only THEN None
             ELSE source_form
        ELSE IF first_enabled_hit(d.enabled).some THEN first_enabled_hit(d.enabled)
             ELSE source_form

\* Option::unwrap_or
unwrap_or(o, d) == IF o.some THEN o.val ELSE d

(***************************************************************************)
(* The trace of a call: log.push lines and calls of external functions.    *)
(* A log line is named by the fixed part of its text.                      *)
(***************************************************************************)
Log(line) == [k |-> "log", v |-> line]
Call(f) == [k |-> "call", v |-> f]

(***************************************************************************)
(* install_aur_native (core.rs 847-979).  The lines git and makepkg write  *)
(* on stdout and stderr, each pushed to the log as it is read, are left    *)
(* out: they are the subprocess's text.                                    *)
(***************************************************************************)
SubprocessOutcomes == {"ok", "failed", "err"}   \* exit 0, exit non-zero, could not be run

\* A pipeline that reports a failed clone and carries on.
install_aur_native_clone_unchecked(insecure, clone, editor, makepkg) ==
    LET fetch == << Log("[fetch] Fetching PKGBUILD"), Call("git clone") >>
                    \o (IF clone = "ok" THEN << >> ELSE << Log("[clone] Failed to clone repo") >>)
        cleanup == << Call("remove_dir_all"), Log("[cleanup] Cleaned up") >>
        build == << Log("[build] Running makepkg"), Call("makepkg") >>
    IN  CASE insecure ->
                [trace |-> fetch \o << Log("[edit] Editing PKGBUILD"), Call("editor"),
                                       Log("[dry-run] Would build and install") >> \o cleanup,
                 ok |-> TRUE]
          [] ~insecure /\ makepkg = "ok" ->
                [trace |-> fetch \o build \o << Log("[install] installed successfully!") >>
                              \o cleanup,
                 ok |-> TRUE]
          [] OTHER ->
                [trace |-> fetch \o build \o << Log("[install] makepkg failed") >>, ok |-> FALSE]

install_aur_native(insecure, clone, editor, makepkg) ==
    LET fetch == << Log("[fetch] Fetching PKGBUILD"), Call("git clone") >>
        edit  == IF insecure
                 THEN << Log("[edit] Editing PKGBUILD"), Call("editor"),
                         Log(CASE editor = "ok" -> "[edit] PKGBUILD edited successfully."
                               [] editor = "failed" -> "[edit] Editor exited with error status."
                               [] editor = "err" -> "[edit] Failed to launch editor") >>
                 ELSE << >>
        cleanup == << Call("remove_dir_all"), Log("[cleanup] Cleaned up") >>
        build == << Log("[build] Running makepkg"), Call("makepkg") >>
    IN  CASE clone = "failed" ->
                [trace |-> fetch \o << Log("[clone] Failed to clone repo") >>, ok |-> FALSE]
          [] clone = "err" ->
                [trace |-> fetch \o << Log("[clone] Failed to run git clone") >>, ok |-> FALSE]
          [] clone = "ok" /\ insecure ->
                [trace |-> fetch \o edit \o << Log("[dry-run] Would build and install") >>
                              \o cleanup,
                 ok |-> TRUE]
          [] clone = "ok" /\ ~insecure /\ makepkg = "ok" ->
                [trace |-> fetch \o edit \o build
                              \o << Log("[install] installed successfully!") >> \o cleanup,
                 ok |-> TRUE]
          [] clone = "ok" /\ ~insecure /\ makepkg = "failed" ->
                [trace |-> fetch \o edit \o build \o << Log("[install] makepkg failed") >>,
                 ok |-> FALSE]
          [] clone = "ok" /\ ~insecure /\ makepkg = "err" ->
                [trace |-> fetch \o edit \o build
                              \o << Log("[install] Failed to run makepkg") >>,
                 ok |-> FALSE]

(***************************************************************************)
(* The tap branch of install_with_priority (core.rs 262-387) and of        *)
(* install_with_priority_enhanced (1231-1356), the same text.              *)
(***************************************************************************)
\* What the branch finds: get_publisher_info(&tap), the keyring, the
\* keyserver, the two files of the recipe directory and what gpg --verify
\* answers.  gpg cannot verify a file that is not there.
TapEnvs ==
    { te \in [ pubinfo : {"none", "verified", "unverified"},
               key_present : BOOLEAN,
               fetch : SubprocessOutcomes,
               sig_exists : BOOLEAN,
               pkgb_exists : BOOLEAN,
               verify : SubprocessOutcomes ] :
        te.verify = "ok" => (te.sig_exists /\ te.pkgb_exists) }

\* A key import whose failure ends the call.
after_key_import_fatal(fetch) == IF fetch = "ok" THEN "verify" ELSE "abort"

\* 301-312: both arms of `match fetch` push one line; the verification of
\* PKGBUILD.sig is the next statement.
after_key_import(fetch) == "verify"

\* The result: the lines and calls of the branch, and whether it returned
\* from the function (abort) or fell through to post_install.
tap_branch(te, insecure) ==
    LET head == << Call("ensure_tap_cloned"), Call("get_publisher_info") >>
        publisher ==
            << Log(IF te.pubinfo = "verified" THEN "publisher [Verified GPG]"
                                              ELSE "publisher [Unverified]"),
               Log("GPG Key"), Call("gpg --list-keys") >>
        import ==
            IF te.key_present THEN << >>
            ELSE << Log("[reap][gpg] Importing publisher key"), Call("gpg --recv-keys"),
                    Log(IF te.fetch = "ok" THEN "[reap][gpg] Successfully imported"
                                           ELSE "[reap][gpg] Failed to import publisher key") >>
        continuing == << Log("Continuing install due to --insecure.") >>
    IN  IF te.pubinfo = "none"
        THEN [trace |-> head \o << Log("Warning: Tap publisher not verified. Installing with --insecure.") >>,
              abort |-> ~insecure]
        ELSE IF ~te.key_present /\ after_key_import(te.fetch) = "abort"
        THEN [trace |-> head \o publisher \o import, abort |-> TRUE]
        ELSE IF te.sig_exists /\ te.pkgb_exists
        THEN IF te.verify = "ok"
             THEN [trace |-> head \o publisher \o import
                                \o << Call("gpg --verify"), Log("PKGBUILD signature verified") >>,
                   abort |-> FALSE]
             ELSE [trace |-> head \o publisher \o import
                                \o << Call("gpg --verify"),
                                      Log("Verification failed for PKGBUILD.sig") >>
                                \o (IF ~insecure
                                    THEN << Log("Aborting install. Use --insecure to override.") >>
                                    ELSE continuing),
                   abort |-> ~insecure]
        ELSE [trace |-> head \o publisher \o import
                           \o << Log("PKGBUILD.sig missing. Aborting install. Use --insecure to override.") >>
                           \o (IF ~insecure THEN << >> ELSE continuing),
              abort |-> ~insecure]

(***************************************************************************)
(* install_with_priority (core.rs 184-446) and                             *)
(* install_with_priority_enhanced (core.rs 1162-1396), one call.           *)
(***************************************************************************)
InstallOptions == [insecure : BOOLEAN, strict_signatures : BOOLEAN]

OptionBool == {None, Some(FALSE), Some(TRUE)}

NoOverlay == [strict_signatures |-> None, fast_mode |-> None,
              source |-> Aur, signature_valid |-> FALSE]

InitInstall ==
    /\ path \in {"primary", "enhanced"}
    /\ opts \in InstallOptions
    /\ pc = IF path = "primary" THEN "pre_install" ELSE "overlay"
    /\ trace = << >>
    /\ resolved = None
    /\ tapenv = None
    /\ overlay = NoOverlay
    /\ backend = "none"

IdleInstall ==
    /\ path = "primary"
    /\ opts = [insecure |-> FALSE, strict_signatures |-> FALSE]
    /\ pc = "idle"
    /\ trace = << >>
    /\ resolved = None
    /\ tapenv = None
    /\ overlay = NoOverlay
    /\ backend = "none"

IdleBulk ==
    /\ bulk = "none"
    /\ npkgs = 0
    /\ cfg_parallel = 0
    /\ permits = 0
    /\ spawned = 0
    /\ tstate = << >>
    /\ mainpc = "idle"
    /\ out = << >>
    /\ pb_pos = 0

\* The two callers of install_aur_native whose calls may overlap.
Callers == {"a", "b"}

NotCalled == [pc |-> "idle", pkg |-> "none", insecure |-> FALSE, now |-> 0,
              clone |-> "none", editor |-> "none", makepkg |-> "none",
              steps |-> << >>, ret |-> "none"]

IdleAur ==
    /\ clock = 0
    /\ acall = [c \in Callers |-> NotCalled]
    /\ fs = {}

IdleCli ==
    /\ cli = [kind |-> "none"]
    /\ cpc = "idle"
    /\ clocal = [i |-> 0]
    /\ cout = << >>
    /\ cret = "none"

IdleResolve ==
    /\ renv = [tap |-> None, backend_order |-> << >>, in_core |-> FALSE,
               in_extra |-> FALSE, in_aur |-> FALSE, flatpak |-> "err"]
    /\ rresult = None
    /\ rpc = "idle"
    /\ rrepeat = None

\* Enhanced only, 1172-1197: the active profile, the trust score of the
\* source detect_source names, and the strict-signature check.
ProfileOverlay ==
    /\ pc = "overlay"
    /\ \E strict \in OptionBool, fast \in OptionBool, d \in DetectEnvs, valid \in BOOLEAN :
         LET source == unwrap_or(detect_source(None, FALSE, d), Aur)
             lines == << Log("[reap][profile] Using profile"), Call("detect_source"),
                         Call("compute_trust_score"), Log("[reap][trust] badge") >>
         IN  /\ overlay' = [strict_signatures |-> strict, fast_mode |-> fast,
                            source |-> source, signature_valid |-> valid]
             /\ IF unwrap_or(strict, FALSE) /\ ~valid
                THEN /\ trace' = trace \o lines
                            \o << Log("[reap][security] Aborting: strict mode requires valid signature") >>
                     /\ pc' = "done"
                ELSE /\ trace' = trace \o lines
                            \o (IF unwrap_or(fast, FALSE)
                                THEN << Log("[reap][profile] Fast mode enabled, skipping verification") >>
                                ELSE << >>)
                     /\ pc' = "pre_install"
    /\ UNCHANGED <<path, opts, resolved, tapenv, backend>>
    /\ UNCHANGED <<varsR, varsB, varsA, varsC>>

\* What the callbacks behind a hook can do: all return, or one fails
\* (an error or a panic inside the callback).
HookOutcomes == {"ok", "failed"}

\* hooks::pre_install / hooks::post_install (module hooks): the registered
\* callbacks run in registration order; a failure inside a callback is caught
\* and logged by the hook runner, which then returns to its caller.
run_hook(name, outcome) ==
    << Call(name) >> \o (IF outcome = "failed"
                         THEN << Log("[hook] callback failed: caught and logged") >>
                         ELSE << >>)

\* A call that gives up when its pre-install hook has failed.
after_pre_install_abort_on_failure(outcome) == IF outcome = "failed" THEN "done" ELSE "resolve"

\* 210-214 and 1209-1213: `pre_install(&ctx);` is a statement; nothing of the
\* hook's outcome is read and the next statement starts the resolution.
after_pre_install(outcome) == "resolve"

\* 200-210 and 1200-1209.
PreInstall ==
    /\ pc = "pre_install"
    /\ \E outcome \in HookOutcomes :
         /\ trace' = trace \o << Log("pre_install executing") >> \o run_hook("pre_install", outcome)
         /\ pc' = after_pre_install(outcome)
    /\ UNCHANGED <<path, opts, resolved, tapenv, overlay, backend>>
    /\ UNCHANGED <<varsR, varsB, varsA, varsC>>

\* The arm of `match source` the call enters.
branch_of(source) ==
    CASE source.kind = "Custom" -> "tap"
      [] source.kind = "Pacman" -> "pacman"
      [] source.kind = "Aur" -> "aur"
      [] source.kind = "Flatpak" -> "flatpak"
      [] OTHER -> "unknown"

\* An else arm that only reports.
resolution_failed_no_rollback == << Log("[reap][error] Could not resolve source") >>

\* An else arm that runs the post-install hook after the rollback.
resolution_failed_with_post_hook ==
    << Log("[reap][error] Could not resolve source"), Call("utils::rollback"),
       Call("post_install") >>

\* 426-436 and 1384-1390: the else arm of `if let Some(..) = resolve_package_source(..)`.
resolution_failed ==
    << Log("[reap][error] Could not resolve source"), Call("utils::rollback") >>

\* 212-260 and 426-436; 1211-1229 and 1384-1390.
ResolveSource ==
    /\ pc = "resolve"
    /\ \E e \in ResolveEnvs :
         LET r == resolve_package_source(e)
         IN  /\ resolved' = r
             /\ IF r.some
                THEN /\ trace' = trace \o << Call("resolve_package_source"),
                                             Log("[reap][priority] Resolved source") >>
                     /\ pc' = branch_of(r.val.source)
                ELSE /\ trace' = trace \o << Call("resolve_package_source") >>
                                     \o resolution_failed
                     /\ pc' = IF path = "primary" THEN "backup" ELSE "timing"
    /\ UNCHANGED <<path, opts, tapenv, overlay, backend>>
    /\ UNCHANGED <<varsR, varsB, varsA, varsC>>

\* 262-387 and 1231-1356.
TapBranch ==
    /\ pc = "tap"
    /\ \E te \in TapEnvs :
         LET b == tap_branch(te, opts.insecure)
         IN  /\ tapenv' = Some(te)
             /\ trace' = trace \o b.trace
             /\ pc' = IF b.abort THEN "done" ELSE "post_install"
    /\ UNCHANGED <<path, opts, resolved, overlay, backend>>
    /\ UNCHANGED <<varsR, varsB, varsA, varsC>>

\* 388-392 and 1357-1361.  pacman::install returns nothing: how it ended is
\* not seen by the call.
PacmanBranch ==
    /\ pc = "pacman"
    /\ trace' = trace \o << Log("[reap][pacman] Installing from repo"),
                            Call("pacman::install"),
                            Log("[ok] Installed from Pacman") >>
    /\ backend' \in {"ok", "err"}
    /\ pc' = "post_install"
    /\ UNCHANGED <<path, opts, resolved, tapenv, overlay>>
    /\ UNCHANGED <<varsR, varsB, varsA, varsC>>

\* 393-406 and 1362-1375.  The options handed to install_aur_native are a
\* fresh bundle with insecure: false; its Result is dropped.
AurBranch ==
    /\ pc = "aur"
    /\ \E clone \in SubprocessOutcomes, makepkg \in SubprocessOutcomes :
         LET n == install_aur_native(FALSE, clone, "ok", makepkg)
         IN  /\ trace' = trace \o << Log("[reap][aur] Installing from AUR") >>
                               \o n.trace
                               \o << Log("[ok] Installed from AUR") >>
             /\ backend' = IF n.ok THEN "ok" ELSE "err"
    /\ pc' = "post_install"
    /\ UNCHANGED <<path, opts, resolved, tapenv, overlay>>
    /\ UNCHANGED <<varsR, varsB, varsA, varsC>>

\* 407-410 and 1376-1379.  The Result of install_flatpak is dropped.
FlatpakBranch ==
    /\ pc = "flatpak"
    /\ trace' = trace \o << Log("[reap][flatpak] Installing from Flatpak"),
                            Call("flatpak::install_flatpak") >>
    /\ backend' \in {"ok", "err"}
    /\ pc' = "post_install"
    /\ UNCHANGED <<path, opts, resolved, tapenv, overlay>>
    /\ UNCHANGED <<varsR, varsB, varsA, varsC>>

\* 413-425 and 1382-1383.
PostInstall ==
    /\ pc = "post_install"
    /\ \E outcome \in HookOutcomes :
         trace' = trace \o << Log("[reap][hook] post_install executing") >>
                        \o run_hook("post_install", outcome)
                        \o (IF path = "primary"
                            THEN << Log("[reap][timing] install_with_priority took") >>
                            ELSE << >>)
    /\ pc' = IF path = "primary" THEN "backup" ELSE "timing"
    /\ UNCHANGED <<path, opts, resolved, tapenv, overlay, backend>>
    /\ UNCHANGED <<varsR, varsB, varsA, varsC>>

\* Primary only, 437-445: backup_package_state (44-69) fails when the backup
\* directory cannot be created; then the PKGBUILD diff.
BackupAndDiff ==
    /\ pc = "backup"
    /\ \E made \in BOOLEAN :
         trace' = trace \o << Call("backup_package_state") >>
                        \o (IF made THEN << Log("[reap][backup] State backed up") >> ELSE << >>)
                        \o << Call("show_pkgbuild_diff") >>
    /\ pc' = "done"
    /\ UNCHANGED <<path, opts, resolved, tapenv, overlay, backend>>
    /\ UNCHANGED <<varsR, varsB, varsA, varsC>>

\* Enhanced only, 1391-1395.
Timing ==
    /\ pc = "timing"
    /\ trace' = trace \o << Log("[reap][timing] Enhanced install took") >>
    /\ pc' = "done"
    /\ UNCHANGED <<path, opts, resolved, tapenv, overlay, backend>>
    /\ UNCHANGED <<varsR, varsB, varsA, varsC>>

Init == InitInstall /\ IdleResolve /\ IdleBulk /\ IdleAur /\ IdleCli

Next ==
    \/ ProfileOverlay
    \/ PreInstall
    \/ ResolveSource
    \/ TapBranch
    \/ PacmanBranch
    \/ AurBranch
    \/ FlatpakBranch
    \/ PostInstall
    \/ BackupAndDiff
    \/ Timing

Spec == Init /\ [][Next]_vars

(***************************************************************************)
(* SpecBulk: parallel_install (core.rs 490-506), parallel_upgrade          *)
(* (508-520) and handle_install_parallel (590-618).  A task's body (one    *)
(* install_with_priority or handle_install call) is two steps: it starts   *)
(* and writes its first line, it ends and writes its last.                 *)
(***************************************************************************)
MaxPkgs == 3

MaxParallel == 2

\* `let max_parallel = 4; // or config.parallel`
ParallelInstallPermits == 4

BulkOps == {"parallel_install", "parallel_upgrade", "handle_install_parallel"}

\* A semaphore that is made with one permit when it is asked for none.
new_semaphore_at_least_one(op, max_parallel) ==
    CASE op = "parallel_install" -> ParallelInstallPermits
      [] op = "handle_install_parallel" -> IF max_parallel = 0 THEN 1 ELSE max_parallel
      [] OTHER -> 0

\* Semaphore::new of each operation; parallel_upgrade makes none.
new_semaphore(op, max_parallel) ==
    CASE op = "parallel_install" -> ParallelInstallPermits
      [] op = "handle_install_parallel" -> max_parallel
      [] OTHER -> 0

\* An acquire that is granted whatever the permits left.
acquire_granted_always(free) == TRUE

\* acquire_owned().await is granted while not all permits are taken.
acquire_granted(free) == free > 0

\* 600-601 and 615-617: handle_install_parallel(pkgs, max_parallel) with n
\* packages comes back to its caller when the loop has nothing to acquire a
\* permit for, or when the first acquire_owned().await on the new semaphore
\* is granted; nothing adds a permit to a semaphore made with none.
handle_install_parallel_returns(n, max_parallel) ==
    n = 0 \/ acquire_granted(new_semaphore("handle_install_parallel", max_parallel))

Terminal == {"ok", "panicked"}

\* A permit that stays taken when its task panicked.
release_permit_unless_panicked(free, end) == IF end = "panicked" THEN free ELSE free + 1

\* 497/501, 604/612: the task owns its permit; the permit is dropped, and so
\* returned to the semaphore, when the task's body ends, by return or by unwinding.
release_permit(free, end) == free + 1

\* A progress bar that is advanced only by an install that returned.
pb_inc_unless_panicked(pos, end) == IF end = "panicked" THEN pos ELSE pos + 1

\* 606-611: catch_unwind swallows handle_install's panic, so pb.inc(1) runs
\* whatever the install's end.
pb_inc(pos, end) == pos + 1

\* join_all that resolves as soon as no task is in its body.
all_joined_none_running(ts) == \A t \in DOMAIN ts : ts[t] # "running"

\* join_all(handles).await: every JoinHandle has resolved, to Ok or to a JoinError.
all_joined(ts) == \A t \in DOMAIN ts : ts[t] \in Terminal

Running == { t \in DOMAIN tstate : tstate[t] = "running" }

Line(t, text) == [task |-> t, text |-> text]

BulkStart ==
    /\ bulk \in BulkOps
    /\ npkgs \in 0..MaxPkgs
    /\ cfg_parallel \in 0..MaxParallel
    /\ permits = new_semaphore(bulk, cfg_parallel)
    /\ spawned = 0
    /\ tstate = [t \in 1..npkgs |-> "unspawned"]
    /\ mainpc = "loop"
    /\ out = << >>
    /\ pb_pos = 0

\* parallel_install 494-504, parallel_upgrade 510-517: the loop spawns a task
\* per package without waiting.
Spawn ==
    /\ bulk \in {"parallel_install", "parallel_upgrade"}
    /\ mainpc = "loop"
    /\ spawned < npkgs
    /\ tstate' = [tstate EXCEPT ![spawned + 1] = "spawned"]
    /\ spawned' = spawned + 1
    /\ UNCHANGED <<bulk, npkgs, cfg_parallel, permits, mainpc, out, pb_pos>>
    /\ UNCHANGED <<varsR, varsI, varsA, varsC>>

\* handle_install_parallel 600-614: the loop takes a permit, waiting for one,
\* and only then spawns the task that owns it.
AcquireAndSpawn ==
    /\ bulk = "handle_install_parallel"
    /\ mainpc = "loop"
    /\ spawned < npkgs
    /\ acquire_granted(permits)
    /\ permits' = permits - 1
    /\ tstate' = [tstate EXCEPT ![spawned + 1] = "spawned"]
    /\ spawned' = spawned + 1
    /\ UNCHANGED <<bulk, npkgs, cfg_parallel, mainpc, out, pb_pos>>
    /\ UNCHANGED <<varsR, varsI, varsA, varsC>>

\* The loop is over: the caller awaits join_all.
LoopDone ==
    /\ mainpc = "loop"
    /\ spawned = npkgs
    /\ mainpc' = "join"
    /\ UNCHANGED <<bulk, npkgs, cfg_parallel, permits, spawned, tstate, out, pb_pos>>
    /\ UNCHANGED <<varsR, varsI, varsA, varsC>>

\* parallel_install 501-502: the task is granted its permit and enters
\* install_with_priority, which pushes its first line (209).
StartWithPermit(t) ==
    /\ bulk = "parallel_install"
    /\ tstate[t] = "spawned"
    /\ acquire_granted(permits)
    /\ permits' = permits - 1
    /\ tstate' = [tstate EXCEPT ![t] = "running"]
    /\ out' = Append(out, Line(t, "pre_install executing"))
    /\ UNCHANGED <<bulk, npkgs, cfg_parallel, spawned, mainpc, pb_pos>>
    /\ UNCHANGED <<varsR, varsI, varsA, varsC>>

\* parallel_upgrade 514-516: the task enters install_with_priority as soon as
\* the runtime runs it.
StartUpgrade(t) ==
    /\ bulk = "parallel_upgrade"
    /\ tstate[t] = "spawned"
    /\ tstate' = [tstate EXCEPT ![t] = "running"]
    /\ out' = Append(out, Line(t, "pre_install executing"))
    /\ UNCHANGED <<bulk, npkgs, cfg_parallel, permits, spawned, mainpc, pb_pos>>
    /\ UNCHANGED <<varsR, varsI, varsA, varsC>>

\* handle_install_parallel 604-607: the task, which owns its permit, enters
\* handle_install, which prints its line (583).
StartInstall(t) ==
    /\ bulk = "handle_install_parallel"
    /\ tstate[t] = "spawned"
    /\ tstate' = [tstate EXCEPT ![t] = "running"]
    /\ out' = Append(out, Line(t, "[reap] Installing"))
    /\ UNCHANGED <<bulk, npkgs, cfg_parallel, permits, spawned, mainpc, pb_pos>>
    /\ UNCHANGED <<varsR, varsI, varsA, varsC>>

\* install_with_priority returns after its last line; the task ends and its
\* permit, if it holds one, is dropped.
FinishTask(t) ==
    /\ bulk \in {"parallel_install", "parallel_upgrade"}
    /\ tstate[t] = "running"
    /\ tstate' = [tstate EXCEPT ![t] = "ok"]
    /\ out' = Append(out, Line(t, "install_with_priority returned"))
    /\ permits' = IF bulk = "parallel_install" THEN release_permit(permits, "ok") ELSE permits
    /\ UNCHANGED <<bulk, npkgs, cfg_parallel, spawned, mainpc, pb_pos>>
    /\ UNCHANGED <<varsR, varsI, varsA, varsC>>

\* install_with_priority panics: the task ends in a JoinError, the unwinding
\* drops its permit.
PanicTask(t) ==
    /\ bulk \in {"parallel_install", "parallel_upgrade"}
    /\ tstate[t] = "running"
    /\ tstate' = [tstate EXCEPT ![t] = "panicked"]
    /\ permits' = IF bulk = "parallel_install" THEN release_permit(permits, "panicked")
                                              ELSE permits
    /\ UNCHANGED <<bulk, npkgs, cfg_parallel, spawned, mainpc, out, pb_pos>>
    /\ UNCHANGED <<varsR, varsI, varsA, varsC>>

\* handle_install_parallel 606-612: handle_install returns or panics, the
\* panic is caught, pb.inc(1), and the task ends, dropping its permit.
FinishInstall(t) ==
    /\ bulk = "handle_install_parallel"
    /\ tstate[t] = "running"
    /\ \E end \in Terminal :
          /\ tstate' = [tstate EXCEPT ![t] = end]
          /\ pb_pos' = pb_inc(pb_pos, end)
          /\ permits' = release_permit(permits, end)
    /\ UNCHANGED <<bulk, npkgs, cfg_parallel, spawned, mainpc, out>>
    /\ UNCHANGED <<varsR, varsI, varsA, varsC>>

\* 505, 518-519, 615-617: join_all resolves and the caller writes its closing
\* line, if it has one, and returns.
JoinAll ==
    /\ mainpc = "join"
    /\ all_joined(tstate)
    /\ out' = CASE bulk = "parallel_upgrade" ->
                      Append(out, Line(0, "[reap] All upgrades complete."))
                [] bulk = "handle_install_parallel" ->
                      Append(out, Line(0, "[reap] All installs complete."))
                [] OTHER -> out
    /\ mainpc' = "returned"
    /\ UNCHANGED <<bulk, npkgs, cfg_parallel, permits, spawned, tstate, pb_pos>>
    /\ UNCHANGED <<varsR, varsI, varsA, varsC>>

NextBulk ==
    \/ Spawn
    \/ AcquireAndSpawn
    \/ LoopDone
    \/ \E t \in 1..npkgs : StartWithPermit(t)
    \/ \E t \in 1..npkgs : StartUpgrade(t)
    \/ \E t \in 1..npkgs : StartInstall(t)
    \/ \E t \in 1..npkgs : FinishTask(t)
    \/ \E t \in 1..npkgs : PanicTask(t)
    \/ \E t \in 1..npkgs : FinishInstall(t)
    \/ JoinAll

InitBulk == BulkStart /\ IdleResolve /\ IdleInstall /\ IdleAur /\ IdleCli

SpecBulk == InitBulk /\ [][NextBulk]_vars

(***************************************************************************)
(* SpecInstallParallel: handle_install_parallel alone, on a runtime that   *)
(* polls every spawned task (tokio::spawn, 605) and with installs that     *)
(* end, by return or by panic: no step that stays possible is put off      *)
(* forever.                                                                *)
(***************************************************************************)
InstallParallelStart == BulkStart /\ bulk = "handle_install_parallel"

NextInstallParallel ==
    \/ AcquireAndSpawn
    \/ LoopDone
    \/ \E t \in 1..npkgs : StartInstall(t)
    \/ \E t \in 1..npkgs : FinishInstall(t)
    \/ JoinAll

InitInstallParallel ==
    InstallParallelStart /\ IdleResolve /\ IdleInstall /\ IdleAur /\ IdleCli

SpecInstallParallel ==
    InitInstallParallel /\ [][NextInstallParallel]_vars /\ WF_vars(NextInstallParallel)

(***************************************************************************)
(* SpecResolve: one call of resolve_package_source on every environment.   *)
(***************************************************************************)
InitResolve ==
    /\ renv \in ResolveEnvs
    /\ rresult = None
    /\ rpc = "call"
    /\ rrepeat = None
    /\ IdleInstall
    /\ IdleBulk
    /\ IdleAur
    /\ IdleCli

Resolve ==
    /\ rpc = "call"
    /\ rresult' = resolve_package_source(renv)
    /\ rpc' = "done"
    /\ UNCHANGED <<renv, rrepeat>>
    /\ UNCHANGED <<varsI, varsB, varsA, varsC>>

\* A second call with the same arguments while the tap registry, pacman, the
\* AUR index and Flatpak answer as before.
ResolveAgain ==
    /\ rpc = "done"
    /\ rrepeat' = resolve_package_source(renv)
    /\ rpc' = "repeated"
    /\ UNCHANGED <<renv, rresult>>
    /\ UNCHANGED <<varsI, varsB, varsA, varsC>>

NextResolve == Resolve \/ ResolveAgain

SpecResolve == InitResolve /\ [][NextResolve]_vars

(***************************************************************************)
(* SpecAur: two callers of install_aur_native (core.rs 847-979) whose      *)
(* calls may overlap, as the tasks of a bulk operation do.  A call reads   *)
(* the clock, then runs its pipeline one external call at a time; the      *)
(* outcomes of its subprocesses are drawn when the clone is started.       *)
(***************************************************************************)
MaxClock == 3

AurPkgs == {"foo", "bar"}

\* 856: Local::now().format("%Y-%m-%d %H:%M:%S") keeps whole seconds.
format_now(t) == t \div 2

\* 858: cache_dir.join(format!("reap-aur-{}-{}", pkg, now)).
build_dir(pkg, now) == [pkg |-> pkg, now |-> now]

BuildDirOf(c) == build_dir(acall[c].pkg, acall[c].now)

\* The whole pipeline of the call, given what its subprocesses answer.
PlanOf(r) == install_aur_native(r.insecure, r.clone, r.editor, r.makepkg)

\* The steps of `plan` after the first n, up to and including the next
\* external call, or up to the return when no call is left.
NextChunk(plan, n) ==
    LET calls == { i \in (n + 1)..Len(plan) : plan[i].k = "call" }
        stop  == IF calls = {} THEN Len(plan)
                 ELSE CHOOSE i \in calls : \A j \in calls : i <= j
    IN  SubSeq(plan, n + 1, stop)

\* What a chunk does to the directories: a clone that succeeds leaves the
\* directory behind, one that fails leaves nothing of its own; 930 and 976
\* remove the directory.
fs_after(dirs, chunk, dir, clone) ==
    IF Contains(chunk, Call("git clone")) /\ clone = "ok" THEN dirs \cup {dir}
    ELSE IF Contains(chunk, Call("remove_dir_all")) THEN dirs \ {dir}
    ELSE dirs

\* Time passes while a caller has yet to read it.
Tick ==
    /\ clock < MaxClock
    /\ \E c \in Callers : acall[c].pc = "idle"
    /\ clock' = clock + 1
    /\ UNCHANGED <<acall, fs>>
    /\ UNCHANGED <<varsR, varsI, varsB, varsC>>

\* 847-859: the call is entered and names its working directory.
AurEnter(c) ==
    /\ acall[c].pc = "idle"
    /\ \E pkg \in AurPkgs, insecure \in BOOLEAN :
         acall' = [acall EXCEPT ![c] = [@ EXCEPT !.pc = "fetch", !.pkg = pkg,
                                                 !.insecure = insecure,
                                                 !.now = format_now(clock)]]
    /\ UNCHANGED <<clock, fs>>
    /\ UNCHANGED <<varsR, varsI, varsB, varsC>>

\* 875-883: the fetch line and git clone into the working directory.
AurFetch(c) ==
    /\ acall[c].pc = "fetch"
    /\ \E clone \in SubprocessOutcomes, editor \in SubprocessOutcomes,
          makepkg \in SubprocessOutcomes :
         /\ (clone # "ok" \/ ~acall[c].insecure) => editor = "ok"
         /\ (clone # "ok" \/ acall[c].insecure) => makepkg = "ok"
         /\ LET r == [acall[c] EXCEPT !.clone = clone, !.editor = editor,
                                      !.makepkg = makepkg]
                chunk == NextChunk(PlanOf(r).trace, 0)
            IN  /\ acall' = [acall EXCEPT ![c] = [r EXCEPT !.pc = "run", !.steps = chunk]]
                /\ fs' = fs_after(fs, chunk, BuildDirOf(c), clone)
    /\ UNCHANGED clock
    /\ UNCHANGED <<varsR, varsI, varsB, varsC>>

\* 884-979: the pipeline goes on to its next external call, or to its return.
AurStep(c) ==
    /\ acall[c].pc = "run"
    /\ LET plan == PlanOf(acall[c])
           chunk == NextChunk(plan.trace, Len(acall[c].steps))
           steps == acall[c].steps \o chunk
       IN  /\ acall' = [acall EXCEPT ![c] =
                           [@ EXCEPT !.steps = steps,
                                     !.pc = IF Len(steps) = Len(plan.trace)
                                            THEN "returned" ELSE "run",
                                     !.ret = IF Len(steps) = Len(plan.trace)
                                             THEN (IF plan.ok THEN "ok" ELSE "err")
                                             ELSE "none"]]
           /\ fs' = fs_after(fs, chunk, BuildDirOf(c), acall[c].clone)
    /\ UNCHANGED clock
    /\ UNCHANGED <<varsR, varsI, varsB, varsC>>

NextAur ==
    \/ Tick
    \/ \E c \in Callers : AurEnter(c)
    \/ \E c \in Callers : AurFetch(c)
    \/ \E c \in Callers : AurStep(c)

InitAur == IdleAur /\ IdleResolve /\ IdleInstall /\ IdleBulk /\ IdleCli

SpecAur == InitAur /\ [][NextAur]_vars

(***************************************************************************)
(* SpecCli: one call of a command: the Install, Upgrade and Tap Add arms   *)
(* of handle_cli (core.rs 983-1160), handle_upgrade (737-769),             *)
(* handle_update (645-687), handle_orphan (778-831) and unified_search     *)
(* (448-473).  Loops run one                                               *)
(* iteration a step; what pacman, the AUR and the config answer about a    *)
(* package is drawn at the iteration that asks.                            *)
(***************************************************************************)
MaxList == 2

CliPkgs == {"foo", "bar", "baz"}

\* The lists of package names a tool can report: no name twice.
PkgLists ==
    { l \in UNION { [1..n -> CliPkgs] : n \in 0..MaxList } :
        \A i, j \in 1..Len(l) : i # j => l[i] # l[j] }

Versions == {"1.0", "1.1"}

OptVersions == {None} \cup { Some(v) : v \in Versions }

\* An external call made, or a line printed, for a package.
Ev(k, v, pkg) == [k |-> k, v |-> v, pkg |-> pkg]

\* A scan that tests the versions only.
in_upgrade_set_ignoring_nothing(ignored, remote, local) == remote.some /\ local # remote

\* 742-751 and 1044-1053: the package is skipped when config.is_ignored
\* holds; else it is pushed when fetch_package_info answered and
\* get_version's answer is not Some(remote.version).
in_upgrade_set(ignored, remote, local) == ~ignored /\ remote.some /\ local # remote

\* An upgrade loop that gives up at the first install that fails.
after_install_result_propagate(ok) == IF ok THEN "install" ELSE "failed"

\* 1068-1074: unwrap_or_else prints the error; the loop goes on.
after_install_result(ok) == "install"

\* handle_upgrade(parallel) reads config.parallel (738, 761); the Upgrade arm
\* of handle_cli does not.
UpgradeCmds ==
    [kind : {"handle_upgrade"}, installed : PkgLists, parallel : BOOLEAN,
     config_parallel : 0..MaxParallel]
    \cup [kind : {"Upgrade"}, installed : PkgLists, parallel : BOOLEAN]

UpgradeLocals == [i |-> 0, seen |-> << >>, to_upgrade |-> << >>, j |-> 0]

IsUpgrade == cli.kind \in {"handle_upgrade", "Upgrade"}

\* 741-752 and 1043-1054: one iteration of `for pkg in installed`.
UpgradeScan ==
    /\ IsUpgrade
    /\ cpc = "scan"
    /\ clocal.i < Len(cli.installed)
    /\ LET pkg == cli.installed[clocal.i + 1]
       IN  \E ignored \in BOOLEAN, remote \in OptVersions, local \in OptVersions :
             /\ clocal' = [clocal EXCEPT
                    !.i = @ + 1,
                    !.seen = Append(@, [pkg |-> pkg, ignored |-> ignored,
                                        remote |-> remote, local |-> local]),
                    !.to_upgrade = IF in_upgrade_set(ignored, remote, local)
                                   THEN Append(@, pkg) ELSE @]
             /\ cout' = IF ignored
                        THEN Append(cout, Ev("print", "[reap] Skipping ignored package", pkg))
                        ELSE cout
    /\ UNCHANGED <<cli, cpc, cret>>
    /\ UNCHANGED <<varsR, varsI, varsB, varsA>>

\* 753-757 and 1055-1059: the scan is over.
UpgradeScanDone ==
    /\ IsUpgrade
    /\ cpc = "scan"
    /\ clocal.i = Len(cli.installed)
    /\ IF clocal.to_upgrade = << >>
       THEN /\ cout' = Append(cout, Ev("print", "[reap] All AUR packages up to date.", "*"))
            /\ cpc' = "done"
            /\ cret' = "ok"
       ELSE /\ cout' = Append(cout, Ev("print", "[reap] Upgrading", "*"))
            /\ cpc' = "install"
            /\ cret' = "none"
    /\ UNCHANGED <<cli, clocal>>
    /\ UNCHANGED <<varsR, varsI, varsB, varsA>>

\* handle_cli 1068-1074: one iteration of `for pkg in to_upgrade`.
UpgradeInstall ==
    /\ cli.kind = "Upgrade"
    /\ cpc = "install"
    /\ clocal.j < Len(clocal.to_upgrade)
    /\ LET pkg == clocal.to_upgrade[clocal.j + 1]
       IN  \E clone \in SubprocessOutcomes, makepkg \in SubprocessOutcomes :
             LET n == install_aur_native(FALSE, clone, "ok", makepkg)
             IN  /\ cout' = cout \o << Ev("call", "install_aur_native", pkg) >>
                                 \o (IF n.ok THEN << >>
                                     ELSE << Ev("print", "[reap] Failed to upgrade", pkg) >>)
                 /\ cpc' = after_install_result(n.ok)
                 /\ cret' = IF after_install_result(n.ok) = "failed" THEN "err" ELSE "none"
    /\ clocal' = [clocal EXCEPT !.j = @ + 1]
    /\ UNCHANGED cli
    /\ UNCHANGED <<varsR, varsI, varsB, varsA>>

\* handle_upgrade 764-768: aur::install for one package, its result dropped.
UpgradeInstallSerial ==
    /\ cli.kind = "handle_upgrade"
    /\ ~cli.parallel
    /\ cpc = "install"
    /\ clocal.j < Len(clocal.to_upgrade)
    /\ cout' = Append(cout, Ev("call", "aur::install", clocal.to_upgrade[clocal.j + 1]))
    /\ clocal' = [clocal EXCEPT !.j = @ + 1]
    /\ UNCHANGED <<cli, cpc, cret>>
    /\ UNCHANGED <<varsR, varsI, varsB, varsA>>

\* handle_upgrade 759-762: the whole set goes to handle_install_parallel
\* with config.parallel; block_on gives control back when that call returns.
UpgradeInstallParallel ==
    /\ cli.kind = "handle_upgrade"
    /\ cli.parallel
    /\ cpc = "install"
    /\ clocal.j = 0
    /\ Len(clocal.to_upgrade) > 0
    /\ cout' = Append(cout, Ev("call", "handle_install_parallel", "*"))
    /\ IF handle_install_parallel_returns(Len(clocal.to_upgrade), cli.config_parallel)
       THEN /\ clocal' = [clocal EXCEPT !.j = Len(clocal.to_upgrade)]
            /\ cpc' = "install"
       ELSE /\ clocal' = clocal
            /\ cpc' = "blocked"
    /\ UNCHANGED <<cli, cret>>
    /\ UNCHANGED <<varsR, varsI, varsB, varsA>>

\* 769 and 1157: the loop is over; handle_cli returns Ok(()).
UpgradeReturn ==
    /\ IsUpgrade
    /\ cpc = "install"
    /\ clocal.j = Len(clocal.to_upgrade)
    /\ cpc' = "done"
    /\ cret' = "ok"
    /\ UNCHANGED <<cli, clocal, cout>>
    /\ UNCHANGED <<varsR, varsI, varsB, varsA>>

\* handle_update() (645-687) with what list_installed_aur answers.
UpdateCmds == [kind : {"handle_update"}, installed : PkgLists]

UpdateLocals == [i |-> 0, seen |-> << >>, updates_available |-> << >>]

\* 656-668: the package is skipped when config.is_ignored holds; else it is
\* pushed when fetch_package_info answered, get_version answered Some(local)
\* and local != remote.version.
in_update_set(ignored, remote, local) ==
    ~ignored /\ remote.some /\ local.some /\ local.val # remote.val

\* 655-669: one iteration of `for pkg in installed`.
UpdateScan ==
    /\ cli.kind = "handle_update"
    /\ cpc = "update_scan"
    /\ clocal.i < Len(cli.installed)
    /\ LET pkg == cli.installed[clocal.i + 1]
       IN  \E ignored \in BOOLEAN, remote \in OptVersions, local \in OptVersions :
             /\ clocal' = [clocal EXCEPT
                    !.i = @ + 1,
                    !.seen = Append(@, [pkg |-> pkg, ignored |-> ignored,
                                        remote |-> remote, local |-> local]),
                    !.updates_available =
                        IF in_update_set(ignored, remote, local)
                        THEN Append(@, [pkg |-> pkg, local |-> local.val,
                                        remote |-> remote.val])
                        ELSE @]
             /\ cout' = IF ignored
                        THEN Append(cout, Ev("print", "Skipping ignored package", pkg))
                        ELSE cout
    /\ UNCHANGED <<cli, cpc, cret>>
    /\ UNCHANGED <<varsR, varsI, varsB, varsA>>

\* 671-686: the report: nothing to update, or one line for each package of
\* updates_available and the hint.
UpdateReport ==
    /\ cli.kind = "handle_update"
    /\ cpc = "update_scan"
    /\ clocal.i = Len(cli.installed)
    /\ cout' = IF clocal.updates_available = << >>
               THEN Append(cout, Ev("print", "All AUR packages are up to date!", "*"))
               ELSE cout \o << Ev("print", "package(s) can be updated", "*") >>
                         \o [x \in 1..Len(clocal.updates_available) |->
                                Ev("print", "update", clocal.updates_available[x].pkg)]
                         \o << Ev("print", "Run reap -Syu to upgrade all packages", "*") >>
    /\ cpc' = "done"
    /\ cret' = "ok"
    /\ UNCHANGED <<cli, clocal>>
    /\ UNCHANGED <<varsR, varsI, varsB, varsA>>

\* handle_orphan(remove, all) with what `pacman -Qdtq` answers: it cannot be
\* run, or it prints a list of packages.
OrphanCmds ==
    [kind : {"Orphan"}, remove : BOOLEAN, all : BOOLEAN,
     qdtq : {None} \cup { Some(l) : l \in PkgLists }]

OrphanLocals == [i |-> 0, checks |-> << >>, aur_orphans |-> << >>, repo_orphans |-> << >>]

\* 784-785: the lines of the tool's stdout; nothing when it could not be run.
Reported == IF cli.qdtq.some THEN cli.qdtq.val ELSE << >>

\* An origin test that takes no package for a repo package.
is_repo_never(repo_check) == FALSE

\* 790-793: repo_check.as_ref().map(|o| o.status.success()).unwrap_or(false)
is_repo(repo_check) == repo_check = "ok"

\* A repo group that is handled whether or not --all is given.
repo_group_handled_without_all(all, repo_orphans) == repo_orphans # << >>

\* 817: `if all && !repo_orphans.is_empty()` guards the listing and the
\* removal of the repo orphans.
repo_group_handled(all, repo_orphans) == all /\ repo_orphans # << >>

\* One line, or one call, for each package of the list.
ForEach(l, k, v) == [x \in 1..Len(l) |-> Ev(k, v, l[x])]

\* 807-810 and 823-826: the uninstall loop prints a line and calls
\* aur::uninstall for each package in turn.
UninstallLoop(l, text) ==
    [x \in 1..(2 * Len(l)) |->
        IF x % 2 = 1 THEN Ev("print", text, l[(x + 1) \div 2])
                     ELSE Ev("call", "aur::uninstall", l[x \div 2])]

\* 785-799: one iteration of the loop over the reported orphans.
OrphanClassify ==
    /\ cli.kind = "Orphan"
    /\ cpc = "classify"
    /\ clocal.i < Len(Reported)
    /\ LET pkg == Reported[clocal.i + 1]
       IN  \E repo_check \in SubprocessOutcomes :
             clocal' = [clocal EXCEPT
                !.i = @ + 1,
                !.checks = Append(@, [pkg |-> pkg, repo_check |-> repo_check]),
                !.repo_orphans = IF is_repo(repo_check) THEN Append(@, pkg) ELSE @,
                !.aur_orphans = IF is_repo(repo_check) THEN @ ELSE Append(@, pkg)]
    /\ UNCHANGED <<cli, cpc, cout, cret>>
    /\ UNCHANGED <<varsR, varsI, varsB, varsA>>

\* 801-816: the AUR orphans are listed and, with remove, uninstalled.
OrphanAurGroup ==
    /\ cli.kind = "Orphan"
    /\ cpc = "classify"
    /\ clocal.i = Len(Reported)
    /\ cout' = cout \o
          (IF clocal.aur_orphans # << >>
           THEN << Ev("print", "Orphaned AUR packages:", "*") >>
                  \o ForEach(clocal.aur_orphans, "print", "    {}")
                  \o (IF cli.remove
                      THEN UninstallLoop(clocal.aur_orphans,
                                         "[reap] Uninstalling orphaned AUR package")
                      ELSE << Ev("print", "Run with --remove to uninstall.", "*") >>)
           ELSE << Ev("print", "No orphaned AUR packages found.", "*") >>)
    /\ cpc' = "repo"
    /\ UNCHANGED <<cli, clocal, cret>>
    /\ UNCHANGED <<varsR, varsI, varsB, varsA>>

\* 817-831: with all, the repo orphans are listed and, with remove, uninstalled.
OrphanRepoGroup ==
    /\ cli.kind = "Orphan"
    /\ cpc = "repo"
    /\ cout' = cout \o
          (IF repo_group_handled(cli.all, clocal.repo_orphans)
           THEN << Ev("print", "Orphaned pacman packages:", "*") >>
                  \o ForEach(clocal.repo_orphans, "print", "    {}")
                  \o (IF cli.remove
                      THEN UninstallLoop(clocal.repo_orphans,
                                         "[reap] Uninstalling orphaned pacman package")
                      ELSE << Ev("print", "Run with --remove to uninstall.", "*") >>)
           ELSE << >>)
    /\ cpc' = "done"
    /\ cret' = "ok"
    /\ UNCHANGED <<cli, clocal>>
    /\ UNCHANGED <<varsR, varsI, varsB, varsA>>

\* cli.backend is a free string: the three values the arm tests, and another.
BackendArgs == {"pacman", "aur", "auto", "flatpak"}

\* --repo R: not given, or the name of a binary repo.
RepoArgs == {None} \cup { Some(r) : r \in BinaryRepoNames }

InstallCmds ==
    [kind : {"Install"}, pkg : CliPkgs, repo : RepoArgs, binary_only : BOOLEAN,
     backend : BackendArgs]

InstallLocals == [detected |-> None, source |-> Aur, query |-> "none",
                  tried_pacman |-> FALSE, pacman_success |-> FALSE]

\* A fallback that does not look at what pacman did.
falls_back_to_aur_whatever_pacman_did(arg, pacman_success) == arg \in {"aur", "auto"}

\* 1020: `!pacman_success && (backend == "aur" || backend == "auto")`.
falls_back_to_aur(arg, pacman_success) == ~pacman_success /\ arg \in {"aur", "auto"}

\* 992-1019: detect_source, then, with backend pacman or auto, `pacman -Si`
\* and, when it succeeds, pacman::install.
InstallTryPacman ==
    /\ cli.kind = "Install"
    /\ cpc = "try_pacman"
    /\ \E d \in DetectEnvs :
         LET detected == detect_source(cli.repo, cli.binary_only, d)
             task == [clocal EXCEPT !.detected = detected,
                                    !.source = unwrap_or(detected, Aur)]
         IN  IF cli.backend \in {"pacman", "auto"}
             THEN \E status \in SubprocessOutcomes :
                    /\ clocal' = [task EXCEPT !.query = status,
                                              !.tried_pacman = status = "ok",
                                              !.pacman_success = status = "ok"]
                    /\ cout' = cout \o << Ev("call", "detect_source", cli.pkg),
                                           Ev("call", "pacman -Si", cli.pkg) >>
                                    \o (IF status = "ok"
                                        THEN << Ev("print", "[reap] Installing from system repo via pacman", cli.pkg),
                                                Ev("call", "pacman::install", cli.pkg) >>
                                        ELSE << >>)
             ELSE /\ clocal' = task
                  /\ cout' = Append(cout, Ev("call", "detect_source", cli.pkg))
    /\ cpc' = "fallback"
    /\ UNCHANGED <<cli, cret>>
    /\ UNCHANGED <<varsR, varsI, varsB, varsA>>

\* 1020-1037 and 1157: the AUR fallback, or the not-found line; then Ok(()).
InstallFallback ==
    /\ cli.kind = "Install"
    /\ cpc = "fallback"
    /\ IF falls_back_to_aur(cli.backend, clocal.pacman_success)
       THEN \E clone \in SubprocessOutcomes, makepkg \in SubprocessOutcomes :
              LET n == install_aur_native(FALSE, clone, "ok", makepkg)
              IN  cout' = cout \o << Ev("print", "[reap] Installing from AUR", cli.pkg),
                                     Ev("call", "install_aur_native", cli.pkg) >>
                               \o (IF n.ok THEN << >>
                                   ELSE << Ev("print", "[reap] Failed to install", cli.pkg) >>)
       ELSE IF ~clocal.pacman_success /\ ~clocal.tried_pacman
       THEN cout' = Append(cout, Ev("print", "[reap] Package not found in repos or AUR.", cli.pkg))
       ELSE cout' = cout
    /\ cpc' = "done"
    /\ cret' = "ok"
    /\ UNCHANGED <<cli, clocal>>
    /\ UNCHANGED <<varsR, varsI, varsB, varsA>>

SearchNames == {"foo", "bar"}

\* The names a search backend returns, in its order; a name may come twice.
NameLists == UNION { [1..n -> SearchNames] : n \in 0..MaxList }

\* unified_search(query) with what search_tap_indexes, aur::search (an
\* error is the empty list, 460) and flatpak::search return.
SearchCmds == [kind : {"unified_search"}, tap : NameLists, aur : NameLists, flatpak : NameLists]

\* The SearchResult entries of a backend: the name, the backend and the
\* place in the backend's list.
Entries(names, source) == [x \in 1..Len(names) |-> [name |-> names[x], source |-> source, n |-> x]]

\* 467: tap_results.into_iter().chain(aur).chain(flatpak)
Chain(c) == Entries(c.tap, "tap") \o Entries(c.aur, "aur") \o Entries(c.flatpak, "flatpak")

SearchLocals == [i |-> 0, seen |-> {}, results |-> << >>]

\* An insert that reports every name as new.
seen_insert_always_new(seen, name) == TRUE

\* 468: HashSet::insert returns true when the set did not hold the value.
seen_insert(seen, name) == name \notin seen

\* 467-471: one iteration of the deduplication loop.
SearchStep ==
    /\ cli.kind = "unified_search"
    /\ cpc = "dedup"
    /\ clocal.i < Len(Chain(cli))
    /\ LET r == Chain(cli)[clocal.i + 1]
       IN  clocal' = [i |-> clocal.i + 1,
                      seen |-> clocal.seen \cup {r.name},
                      results |-> IF seen_insert(clocal.seen, r.name)
                                  THEN Append(clocal.results, r)
                                  ELSE clocal.results]
    /\ UNCHANGED <<cli, cpc, cout, cret>>
    /\ UNCHANGED <<varsR, varsI, varsB, varsA>>

\* 472: results is returned.
SearchReturn ==
    /\ cli.kind = "unified_search"
    /\ cpc = "dedup"
    /\ clocal.i = Len(Chain(cli))
    /\ cpc' = "done"
    /\ cret' = "ok"
    /\ UNCHANGED <<cli, clocal, cout>>
    /\ UNCHANGED <<varsR, varsI, varsB, varsA>>

\* The priorities `tap add` takes on the command line: an integer, higher
\* preferred; values around the conventional 30 and around 255.
CliPriorities == {0, 30, 100, 255, 256, 300}

TapNames == <<"alpha", "beta">>

\* Two `tap add` commands in a row, for two taps.
TapAddCmds == [kind : {"TapAdd"}, priority : [1..2 -> CliPriorities]]

TapAddLocals == [i |-> 0, registry |-> << >>]

\* 1121: `*priority as u8` keeps the low eight bits.
as_u8(p) == p % 256

\* tap::add_or_update_tap(name, url, Some(priority), true): the tap is
\* registered, enabled, with the priority it is given.
add_or_update_tap(registry, name, priority) ==
    Append(registry, [name |-> name, priority |-> priority, enabled |-> TRUE])

\* 1116-1121: the Tap Add arm; 1157: Ok(()).
TapAdd ==
    /\ cli.kind = "TapAdd"
    /\ cpc = "tap_add"
    /\ clocal.i < Len(TapNames)
    /\ clocal' = [i |-> clocal.i + 1,
                  registry |-> add_or_update_tap(clocal.registry, TapNames[clocal.i + 1],
                                                 as_u8(cli.priority[clocal.i + 1]))]
    /\ cout' = Append(cout, Ev("call", "tap::add_or_update_tap", TapNames[clocal.i + 1]))
    /\ cpc' = IF clocal.i + 1 = Len(TapNames) THEN "done" ELSE "tap_add"
    /\ cret' = "ok"
    /\ UNCHANGED cli
    /\ UNCHANGED <<varsR, varsI, varsB, varsA>>

CliCmds == UpgradeCmds \cup UpdateCmds \cup OrphanCmds \cup InstallCmds \cup SearchCmds \cup TapAddCmds

\* The locals and the position at the entry of each command.
LocalsAtEntry(c) ==
    CASE c.kind \in {"handle_upgrade", "Upgrade"} -> UpgradeLocals
      [] c.kind = "handle_update" -> UpdateLocals
      [] c.kind = "Orphan" -> OrphanLocals
      [] c.kind = "Install" -> InstallLocals
      [] c.kind = "unified_search" -> SearchLocals
      [] c.kind = "TapAdd" -> TapAddLocals

PcAtEntry(c) ==
    CASE c.kind \in {"handle_upgrade", "Upgrade"} -> "scan"
      [] c.kind = "handle_update" -> "update_scan"
      [] c.kind = "Orphan" -> "classify"
      [] c.kind = "Install" -> "try_pacman"
      [] c.kind = "unified_search" -> "dedup"
      [] c.kind = "TapAdd" -> "tap_add"

CliStart ==
    /\ cli \in CliCmds
    /\ cpc = PcAtEntry(cli)
    /\ clocal = LocalsAtEntry(cli)
    /\ cout = << >>
    /\ cret = "none"

NextCli ==
    \/ UpgradeScan
    \/ UpgradeScanDone
    \/ UpgradeInstall
    \/ UpgradeInstallSerial
    \/ UpgradeInstallParallel
    \/ UpgradeReturn
    \/ UpdateScan
    \/ UpdateReport
    \/ OrphanClassify
    \/ OrphanAurGroup
    \/ OrphanRepoGroup
    \/ InstallTryPacman
    \/ InstallFallback
    \/ SearchStep
    \/ SearchReturn
    \/ TapAdd

InitCli == CliStart /\ IdleResolve /\ IdleInstall /\ IdleBulk /\ IdleAur

SpecCli == InitCli /\ [][NextCli]_vars

(***************************************************************************)
(* SpecParallelism: handle_install_parallel called directly, or a command  *)
(* that may call it (handle_upgrade with parallel set).                    *)
(***************************************************************************)
InitParallelism ==
    /\ \/ InstallParallelStart /\ IdleCli
       \/ CliStart /\ IdleBulk
    /\ IdleResolve
    /\ IdleInstall
    /\ IdleAur

NextParallelism == NextInstallParallel \/ NextCli

SpecParallelism == InitParallelism /\ [][NextParallelism]_vars

(***************************************************************************)
(* Properties of resolve_package_source, under SpecResolve.                *)
(***************************************************************************)
\* The condition of step i of the resolver's order, and the tuple it returns.
StepHolds(e, i) ==
    CASE i = 1 -> e.tap.some
      [] i = 2 -> Contains(e.backend_order, "pacman") /\ (e.in_core \/ e.in_extra)
      [] i = 3 -> Contains(e.backend_order, "aur") /\ e.in_aur
      [] i = 4 -> Contains(e.backend_order, "flatpak") /\ e.flatpak = "hit"

StepSource(e, i) ==
    CASE i = 1 -> Custom(e.tap.val.name)
      [] i = 2 -> Pacman
      [] i = 3 -> Aur
      [] i = 4 -> Flatpak

StepPriority(e, i) ==
    CASE i = 1 -> e.tap.val.priority
      [] i = 2 -> 20
      [] i = 3 -> 10
      [] i = 4 -> 1

EarliestStep(e, i) == StepHolds(e, i) /\ \A j \in 1..(i - 1) : ~StepHolds(e, j)

\* C1: the resolver returns the tuple of the earliest step of the order tap,
\* pacman, AUR, Flatpak whose condition holds (the tap with its own priority
\* and the tap object; Pacman, 20, no tap; Aur, 10, no tap; Flatpak, 1, no
\* tap), and none exactly when no step's condition holds.
C1_FirstHit ==
    rpc = "done" =>
        /\ rresult.some <=> \E i \in 1..4 : StepHolds(renv, i)
        /\ \A i \in 1..4 :
             EarliestStep(renv, i) =>
                /\ rresult.some
                /\ rresult.val.source = StepSource(renv, i)
                /\ rresult.val.prio = StepPriority(renv, i)
                /\ rresult.val.tap = (IF i = 1 THEN renv.tap ELSE None)

\* The repositories and the AUR both have the package, and the order names both.
C1_Witness ==
    /\ rpc = "done"
    /\ ~renv.tap.some
    /\ StepHolds(renv, 2) /\ StepHolds(renv, 3) /\ StepHolds(renv, 4)
    /\ rresult = Some([source |-> Pacman, tap_name |-> None, prio |-> 20, tap |-> None])

BackendSource(b) ==
    CASE b = "pacman" -> Pacman
      [] b = "aur" -> Aur
      [] b = "flatpak" -> Flatpak

\* C2: a backend that config.backend_order does not contain is never the
\* source the resolver returns, whatever the repositories, the AUR and
\* Flatpak hold.
C2_BackendGating ==
    (rpc = "done" /\ rresult.some) =>
        \A b \in Backends :
            ~Contains(renv.backend_order, b) => rresult.val.source # BackendSource(b)

\* The AUR has the package, the order omits "aur", and nothing earlier hit.
C2_Witness ==
    /\ rpc = "done"
    /\ ~Contains(renv.backend_order, "aur")
    /\ renv.in_aur
    /\ ~StepHolds(renv, 1) /\ ~StepHolds(renv, 2)
    /\ Contains(renv.backend_order, "flatpak") /\ renv.flatpak = "hit"
    /\ rresult.val.source = Flatpak

(***************************************************************************)
(* Properties of one install call, under Spec.                             *)
(***************************************************************************)
HasCall(f) == \E i \in 1..Len(trace) : trace[i] = Call(f)

HasLog(line) == \E i \in 1..Len(trace) : trace[i] = Log(line)

\* The calls that change the system: pacman::install, the makepkg build and
\* install of install_aur_native, the Flatpak install.
MutatingCalls == { Call("pacman::install"), Call("makepkg"), Call("flatpak::install_flatpak") }

HasMutatingCall == \E i \in 1..Len(trace) : trace[i] \in MutatingCalls

\* The lines whose text holds "Aborting install. Use --insecure to override."
AbortHintLines ==
    { "Aborting install. Use --insecure to override.",
      "PKGBUILD.sig missing. Aborting install. Use --insecure to override." }

\* The tap's PKGBUILD.sig is missing, or gpg does not verify it.
SignatureMissingOrInvalid(te) == ~te.sig_exists \/ te.verify # "ok"

TapInstallWithBadSignature ==
    /\ pc = "done"
    /\ tapenv.some
    /\ SignatureMissingOrInvalid(tapenv.val)

\* C3: in install_with_priority, a tap install whose signature is missing or
\* invalid, with insecure = false, logs a line holding 'Aborting install. Use
\* --insecure to override.' and returns with no build or install step, no
\* post_install and no backup snapshot.
C3_SecureAbort ==
    (path = "primary" /\ TapInstallWithBadSignature /\ ~opts.insecure) =>
        /\ \E line \in AbortHintLines : HasLog(line)
        /\ ~HasMutatingCall
        /\ ~HasCall("post_install")
        /\ ~HasCall("backup_package_state")

\* C4: in install_with_priority, a tap install whose signature is missing or
\* invalid, with insecure = true and strict_signatures = false, goes on and
\* invokes the build/install step of the package before post_install.
C4_InsecureBuilds ==
    (path = "primary" /\ TapInstallWithBadSignature
        /\ opts.insecure /\ ~opts.strict_signatures) =>
        \E i, j \in 1..Len(trace) :
            /\ i < j
            /\ trace[i] \in MutatingCalls
            /\ trace[j] = Call("post_install")

\* strict_signatures as the call is given it: the option of the primary path,
\* the active profile's setting of the enhanced path.
StrictSignatures ==
    IF path = "primary" THEN opts.strict_signatures
    ELSE unwrap_or(overlay.strict_signatures, FALSE)

\* C5: with strict_signatures set, a tap install whose signature is missing or
\* invalid is aborted even with insecure = true: no build or install step
\* and no post_install hook runs.
C5_StrictAborts ==
    (TapInstallWithBadSignature /\ StrictSignatures) =>
        /\ ~HasMutatingCall
        /\ ~HasCall("post_install")

\* C6: in both install paths every mutating install step is preceded, within
\* the call, by a backup_package_state snapshot.
C6_SnapshotFirst ==
    \A i \in 1..Len(trace) :
        trace[i] \in MutatingCalls =>
            \E j \in 1..(i - 1) : trace[j] = Call("backup_package_state")

(***************************************************************************)
(* Properties of the bulk operations, under SpecBulk.                      *)
(***************************************************************************)
\* C7: in handle_install_parallel with max_parallel >= 1, the number of
\* install tasks running at one instant never exceeds max_parallel.
C7_InstallParallelBound ==
    (bulk = "handle_install_parallel" /\ cfg_parallel >= 1) =>
        Cardinality(Running) <= cfg_parallel

\* max_parallel tasks are running and the loop waits for a permit.
C7_Witness ==
    /\ bulk = "handle_install_parallel"
    /\ cfg_parallel = MaxParallel
    /\ Cardinality(Running) = cfg_parallel
    /\ mainpc = "loop"
    /\ spawned < npkgs

\* C8: in parallel_install the number of install_with_priority calls running
\* at one instant never exceeds the configured parallelism.
C8_ParallelInstallBound ==
    (bulk = "parallel_install" /\ cfg_parallel >= 1) =>
        Cardinality(Running) <= cfg_parallel

\* C9: in parallel_upgrade the number of install_with_priority calls running
\* at one instant never exceeds the configured maximum parallelism.
C9_ParallelUpgradeBound ==
    (bulk = "parallel_upgrade" /\ cfg_parallel >= 1) =>
        Cardinality(Running) <= cfg_parallel

\* C10: a bulk operation returns only after every spawned task has ended,
\* normally or by panic, and the '[reap] All upgrades complete.' line of
\* parallel_upgrade comes after the last line of every task.
C10_ReturnAfterAllTasks ==
    /\ mainpc = "returned" => \A t \in 1..npkgs : tstate[t] \in Terminal
    /\ \A i \in 1..Len(out) :
         out[i] = Line(0, "[reap] All upgrades complete.") =>
            /\ i = Len(out)
            /\ \A t \in 1..npkgs : tstate[t] \in Terminal

\* A parallel upgrade has returned; one task ended normally, one by panic.
C10_Witness ==
    /\ bulk = "parallel_upgrade"
    /\ mainpc = "returned"
    /\ \E t \in 1..npkgs : tstate[t] = "ok"
    /\ \E t \in 1..npkgs : tstate[t] = "panicked"
    /\ out[Len(out)] = Line(0, "[reap] All upgrades complete.")

\* The first lines task t has written: one per start of its install.
Starts(t) == { i \in 1..Len(out) : out[i] = Line(t, "[reap] Installing") }

InstallParallelReturned == bulk = "handle_install_parallel" /\ mainpc = "returned"

\* C11: handle_install_parallel with max_parallel >= 1 eventually returns,
\* and at its return every listed package has had exactly one install task,
\* which has ended, and the progress bar's position is the length of the
\* list, whether the installs returned or panicked.
C11_InstallParallelTerminates ==
    /\ [](InstallParallelReturned =>
            /\ pb_pos = npkgs
            /\ \A t \in 1..npkgs : tstate[t] \in Terminal /\ Cardinality(Starts(t)) = 1)
    /\ (bulk = "handle_install_parallel" /\ cfg_parallel >= 1) ~> InstallParallelReturned

\* handle_install_parallel has returned from a full list with one permit;
\* one install returned and one panicked.
C11_Witness ==
    /\ InstallParallelReturned
    /\ npkgs = MaxPkgs
    /\ cfg_parallel = 1
    /\ \E t \in 1..npkgs : tstate[t] = "ok"
    /\ \E t \in 1..npkgs : tstate[t] = "panicked"
    /\ pb_pos = npkgs

\* The tasks that own a permit: in parallel_install a task acquires it as
\* its first step, in handle_install_parallel it is spawned with it.
PermitHolders ==
    { t \in 1..npkgs :
        \/ tstate[t] = "running"
        \/ bulk = "handle_install_parallel" /\ tstate[t] = "spawned" }

Semaphored == bulk \in {"parallel_install", "handle_install_parallel"}

\* C12: in parallel_install and handle_install_parallel a task that ended,
\* by return or by panic, holds no permit, so that the permits left and the
\* permits held by tasks still in flight always add up to the semaphore's
\* size; a task still to run is therefore never blocked by ended tasks
\* alone, and at the return every listed package has been attempted, a
\* panicked peer notwithstanding.
C12_PeerIsolation ==
    (Semaphored /\ cfg_parallel >= 1) =>
        /\ permits + Cardinality(PermitHolders) = new_semaphore(bulk, cfg_parallel)
        /\ (PermitHolders = {} /\ \E t \in 1..npkgs : tstate[t] \notin Terminal)
               => acquire_granted(permits)
        /\ mainpc = "returned" =>
               \A t \in 1..npkgs :
                   \/ tstate[t] = "ok"
                   \/ tstate[t] = "panicked"

\* With one permit, the first install has panicked and the second install,
\* spawned after it, is running while a third package waits for its turn.
C12_Witness ==
    /\ bulk = "handle_install_parallel"
    /\ cfg_parallel = 1
    /\ npkgs = MaxPkgs
    /\ tstate[1] = "panicked"
    /\ tstate[2] = "running"
    /\ spawned = 2

(***************************************************************************)
(* Properties of one install call, under Spec: hooks, failures, ordering.  *)
(***************************************************************************)
\* The hook `name` has been run and one of its callbacks failed.
HookFailed(name) ==
    \E i \in 1..(Len(trace) - 1) :
        /\ trace[i] = Call(name)
        /\ trace[i + 1] = Log("[hook] callback failed: caught and logged")

\* The first external call of the arm taken for a resolved source.
BranchEntered ==
    CASE ~resolved.some -> FALSE
      [] resolved.val.source.kind = "Custom" -> HasCall("ensure_tap_cloned")
      [] resolved.val.source.kind = "Pacman" -> HasCall("pacman::install")
      [] resolved.val.source.kind = "Aur" -> HasCall("git clone")
      [] resolved.val.source.kind = "Flatpak" -> HasCall("flatpak::install_flatpak")
      [] OTHER -> FALSE

\* C13: a call whose pre_install hook failed still goes on to the
\* resolution and, when the package resolves, into the install arm of its
\* source; and no rollback is ever invoked after a post_install hook that
\* failed.
C13_HookIsolation ==
    /\ (pc = "done" /\ HookFailed("pre_install")) =>
           /\ HasCall("resolve_package_source")
           /\ resolved.some => BranchEntered
    /\ HookFailed("post_install") =>
           \A i \in 1..Len(trace), j \in 1..Len(trace) :
               (trace[i] = Call("post_install") /\ i < j) => trace[j] # Call("utils::rollback")

\* Both hooks failed around a Pacman install that ran, and the call is over.
C13_Witness ==
    /\ pc = "done"
    /\ HookFailed("pre_install")
    /\ HookFailed("post_install")
    /\ HasCall("pacman::install")

\* resolve_package_source has answered the call with None.
ResolutionFailed == HasCall("resolve_package_source") /\ ~resolved.some

\* C14: when resolve_package_source returns None, the call has pushed the
\* 'Could not resolve source' line and invoked rollback, it runs no backend
\* install and no post_install hook, and it goes on to its return: only the
\* closing steps, which cannot fail the call, are left.
C14_ResolutionFailure ==
    ResolutionFailed =>
        /\ HasLog("[reap][error] Could not resolve source")
        /\ HasCall("utils::rollback")
        /\ ~HasMutatingCall
        /\ ~HasCall("git clone")
        /\ ~HasCall("ensure_tap_cloned")
        /\ ~HasCall("post_install")
        /\ pc \in {"backup", "timing", "done"}
        /\ pc # "done" => ENABLED Next

\* A call of the enhanced path has returned after a resolution that failed.
C14_Witness ==
    /\ ResolutionFailed
    /\ path = "enhanced"
    /\ pc = "done"
    /\ HasCall("utils::rollback")

\* C15: when the package resolved to the AUR and the build and install
\* step of install_aur_native failed, the returned call has invoked
\* rollback for the package.
C15_InstallFailureRollsBack ==
    (pc = "done" /\ resolved.some /\ backend = "err" /\ HasCall("makepkg")) =>
        HasCall("utils::rollback")

\* C18: the PKGBUILD diff is shown before the build, never after: no
\* show_pkgbuild_diff follows a backend install or the post_install
\* hook, and every makepkg run has a show_pkgbuild_diff before it.
C18_DiffBeforeBuild ==
    \A i \in 1..Len(trace) :
        /\ trace[i] = Call("show_pkgbuild_diff") =>
              \A j \in 1..(i - 1) : trace[j] \notin MutatingCalls \cup {Call("post_install")}
        /\ trace[i] = Call("makepkg") =>
              \E j \in 1..(i - 1) : trace[j] = Call("show_pkgbuild_diff")

(***************************************************************************)
(* Properties of install_aur_native, under SpecAur.                        *)
(***************************************************************************)
Returned(c) == acall[c].pc = "returned"

InCall(c) == acall[c].pc \in {"fetch", "run"}

Did(c, f) == Contains(acall[c].steps, Call(f))

\* Step f of call c came before its step g.
DidBefore(c, f, g) ==
    \E i \in 1..Len(acall[c].steps), j \in 1..Len(acall[c].steps) :
        i < j /\ acall[c].steps[i] = Call(f) /\ acall[c].steps[j] = Call(g)

\* No other call has named the working directory of call c.
OwnDirectory(c) ==
    \A d \in Callers \ {c} : acall[d].pc = "idle" \/ BuildDirOf(d) # BuildDirOf(c)

\* C16: once a call of install_aur_native has returned, by whichever exit,
\* the working directory it created no longer exists.
C16_CleanupOnEveryExit ==
    \A c \in Callers : (Returned(c) /\ OwnDirectory(c)) => BuildDirOf(c) \notin fs

\* C17: a call whose git clone could not be run or exited non-zero invokes
\* neither the editor nor makepkg and returns an error; whenever the editor
\* or makepkg has been invoked, a clone that succeeded came before it.
C17_FetchFailureFatal ==
    \A c \in Callers :
        /\ acall[c].clone \in {"failed", "err"} =>
              /\ ~Did(c, "editor")
              /\ ~Did(c, "makepkg")
              /\ Returned(c) => acall[c].ret = "err"
        /\ Did(c, "makepkg") => acall[c].clone = "ok" /\ DidBefore(c, "git clone", "makepkg")
        /\ Did(c, "editor") => acall[c].clone = "ok" /\ DidBefore(c, "git clone", "editor")

\* One call has returned its error after a clone that failed, the other has
\* run makepkg after a clone that succeeded.
C17_Witness ==
    /\ Returned("a")
    /\ acall["a"].clone = "failed"
    /\ acall["a"].ret = "err"
    /\ Did("b", "makepkg")

\* C19: a call that invoked the editor on the PKGBUILD goes on to the
\* build: by its return it has invoked makepkg after the editor, whatever
\* the editor's outcome.
C19_ReviewDoesNotGateBuild ==
    \A c \in Callers :
        (Returned(c) /\ Did(c, "editor")) => DidBefore(c, "editor", "makepkg")

\* C20: two calls of install_aur_native that overlap in time name distinct
\* working directories.
C20_UniqueWorkingDirectories ==
    \A c \in Callers, d \in Callers :
        (c # d /\ InCall(c) /\ InCall(d)) => BuildDirOf(c) # BuildDirOf(d)

InstallCalls == SelectSeq(cout, LAMBDA e : e = Ev("call", "install_aur_native", e.pkg))

\* install_aur_native failed for package p.
UpgradeFailed(p) == Contains(cout, Ev("print", "[reap] Failed to upgrade", p))

\* C22: the Upgrade command of handle_cli, once it has returned, has
\* returned Ok and has called install_aur_native once for every package of
\* the outdated set, in order, whichever of the installs failed.
C22_UpgradeFailureNotFatal ==
    (cli.kind = "Upgrade" /\ cret # "none") =>
        /\ cret = "ok"
        /\ Len(InstallCalls) = Len(clocal.to_upgrade)
        /\ \A k \in 1..Len(InstallCalls) : InstallCalls[k].pkg = clocal.to_upgrade[k]

\* The command has returned; the install of the first of two outdated
\* packages failed and the second was installed.
C22_Witness ==
    /\ cli.kind = "Upgrade"
    /\ cpc = "done"
    /\ cret = "ok"
    /\ Len(clocal.to_upgrade) = 2
    /\ UpgradeFailed(clocal.to_upgrade[1])
    /\ ~UpgradeFailed(clocal.to_upgrade[2])
    /\ Len(InstallCalls) = 2

\* An install of package p has been invoked.
InstallInvoked(p) ==
    \/ Contains(cout, Ev("call", "install_aur_native", p))
    \/ Contains(cout, Ev("call", "aur::install", p))
    \/ Contains(cout, Ev("call", "handle_install_parallel", "*")) /\ Contains(clocal.to_upgrade, p)

\* C23: in handle_upgrade and in the Upgrade command, a scanned package
\* that config.is_ignored names is not in the upgrade set and no install is
\* invoked for it, whatever its versions; a scanned package that is not
\* ignored and whose remote version differs from its local version is in
\* the set.
C23_IgnoredNeverUpgraded ==
    IsUpgrade =>
        \A k \in 1..Len(clocal.seen) :
            LET r == clocal.seen[k]
            IN  /\ r.ignored => ~Contains(clocal.to_upgrade, r.pkg) /\ ~InstallInvoked(r.pkg)
                /\ (~r.ignored /\ r.remote.some /\ r.local # r.remote) =>
                       Contains(clocal.to_upgrade, r.pkg)

\* handle_upgrade has returned: it skipped an ignored package whose remote
\* version is newer and installed the other, outdated one.
C23_Witness ==
    /\ cli.kind = "handle_upgrade"
    /\ cpc = "done"
    /\ Len(clocal.seen) = 2
    /\ clocal.seen[1].ignored /\ clocal.seen[1].remote = Some("1.1")
    /\ clocal.seen[1].local = Some("1.0")
    /\ ~clocal.seen[2].ignored
    /\ clocal.to_upgrade = << clocal.seen[2].pkg >>
    /\ InstallInvoked(clocal.seen[2].pkg)

OrphanDone == cli.kind = "Orphan" /\ cpc = "done"

Listed(p) == Contains(cout, Ev("print", "    {}", p))

Uninstalled(p) == Contains(cout, Ev("call", "aur::uninstall", p))

\* Every reported orphan is in exactly one group, by its repository query.
OrphanPartition ==
    \A k \in 1..Len(clocal.checks) :
        LET r == clocal.checks[k]
        IN  /\ Contains(clocal.repo_orphans, r.pkg) <=> r.repo_check = "ok"
            /\ Contains(clocal.aur_orphans, r.pkg) <=> r.repo_check # "ok"

\* C24 as stated: handle_orphan places every reported orphan in exactly one
\* of the two groups, repo-origin if its repository query succeeds and
\* AUR-origin otherwise, and lists every orphan of either group.
C24_OrphanPartitionListed ==
    OrphanDone =>
        /\ Len(clocal.checks) = Len(Reported)
        /\ OrphanPartition
        /\ \A k \in 1..Len(Reported) : Listed(Reported[k])

\* C24 amended: every reported orphan is in exactly one of the two groups
\* by its repository query; every AUR-origin orphan is listed, and a
\* repo-origin orphan is listed exactly when all is set.
C24_OrphanPartition ==
    OrphanDone =>
        /\ Len(clocal.checks) = Len(Reported)
        /\ OrphanPartition
        /\ \A k \in 1..Len(clocal.aur_orphans) : Listed(clocal.aur_orphans[k])
        /\ \A k \in 1..Len(clocal.repo_orphans) : Listed(clocal.repo_orphans[k]) <=> cli.all

\* Without --all, one orphan of each origin: the AUR one is listed, the
\* repo one is not.
C24_Witness ==
    /\ OrphanDone
    /\ ~cli.all
    /\ Len(clocal.aur_orphans) = 1 /\ Len(clocal.repo_orphans) = 1
    /\ Listed(clocal.aur_orphans[1])
    /\ ~Listed(clocal.repo_orphans[1])

\* C29: handle_orphan uninstalls nothing when remove is false; with remove
\* it uninstalls every AUR-origin orphan, and it uninstalls the
\* repo-origin orphans exactly when remove and all are both set.
C29_OrphanRemovalGating ==
    OrphanDone =>
        /\ ~cli.remove => \A k \in 1..Len(Reported) : ~Uninstalled(Reported[k])
        /\ cli.remove => \A k \in 1..Len(clocal.aur_orphans) : Uninstalled(clocal.aur_orphans[k])
        /\ \A k \in 1..Len(clocal.repo_orphans) :
               Uninstalled(clocal.repo_orphans[k]) <=> (cli.remove /\ cli.all)

\* With --remove and without --all, the AUR orphan has been uninstalled and
\* the repo orphan has been kept.
C29_Witness ==
    /\ OrphanDone
    /\ cli.remove /\ ~cli.all
    /\ Len(clocal.aur_orphans) = 1 /\ Len(clocal.repo_orphans) = 1
    /\ Uninstalled(clocal.aur_orphans[1])
    /\ ~Uninstalled(clocal.repo_orphans[1])

PacmanInstallCalled == Contains(cout, Ev("call", "pacman::install", cli.pkg))

AurNativeCalled == Contains(cout, Ev("call", "install_aur_native", cli.pkg))

\* C27: in the Install command at most one of pacman::install and
\* install_aur_native is invoked; with backend 'pacman' install_aur_native
\* is never invoked, with backend 'aur' pacman::install is never invoked,
\* and with backend 'auto' the returned command has invoked
\* install_aur_native exactly when `pacman -Si` did not succeed.
C27_BackendExclusivity ==
    cli.kind = "Install" =>
        /\ ~(PacmanInstallCalled /\ AurNativeCalled)
        /\ cli.backend = "pacman" => ~AurNativeCalled
        /\ cli.backend = "aur" => ~PacmanInstallCalled
        /\ (cli.backend = "auto" /\ cpc = "done") =>
               (AurNativeCalled <=> clocal.query # "ok")

\* With backend 'auto' the repository query succeeded: pacman::install has
\* run, install_aur_native has not, and the command has returned.
C27_Witness ==
    /\ cli.kind = "Install"
    /\ cli.backend = "auto"
    /\ cpc = "done"
    /\ clocal.query = "ok"
    /\ PacmanInstallCalled
    /\ ~AurNativeCalled

\* The place of the first entry named `name` in the chain of the three lists.
FirstPlace(name) ==
    CHOOSE x \in 1..Len(Chain(cli)) :
        /\ Chain(cli)[x].name = name
        /\ \A y \in 1..(x - 1) : Chain(cli)[y].name # name

\* C28: the result of unified_search holds no name twice; it holds a name
\* iff one of the tap, AUR or Flatpak lists holds it; and the entry kept
\* for a name is the name's first entry in the chain tap, AUR, Flatpak,
\* the kept entries standing in the chain's order.
C28_SearchDedup ==
    (cli.kind = "unified_search" /\ cpc = "done") =>
        LET res == clocal.results
        IN  /\ \A x, y \in 1..Len(res) : x # y => res[x].name # res[y].name
            /\ { res[x].name : x \in 1..Len(res) }
                  = { Chain(cli)[x].name : x \in 1..Len(Chain(cli)) }
            /\ \A x \in 1..Len(res) : res[x] = Chain(cli)[FirstPlace(res[x].name)]
            /\ \A x, y \in 1..Len(res) :
                   x < y => FirstPlace(res[x].name) < FirstPlace(res[y].name)

\* A name found by the AUR and, twice, by Flatpak, and another found by a
\* tap and by the AUR: the result is the tap's entry, then the AUR's.
C28_Witness ==
    /\ cli.kind = "unified_search"
    /\ cpc = "done"
    /\ cli.tap = << "bar" >>
    /\ cli.aur = << "foo", "bar" >>
    /\ cli.flatpak = << "foo", "foo" >>
    /\ clocal.results = << [name |-> "bar", source |-> "tap", n |-> 1],
                           [name |-> "foo", source |-> "aur", n |-> 1] >>

\* C30: `tap add` registers each tap with exactly the priority given on the
\* command line, so that a greater priority on the command line is a
\* greater registered priority.
C30_TapPriorityPreserved ==
    cli.kind = "TapAdd" =>
        /\ \A k \in 1..Len(clocal.registry) : clocal.registry[k].priority = cli.priority[k]
        /\ \A k, m \in 1..Len(clocal.registry) :
               cli.priority[k] > cli.priority[m] =>
                  clocal.registry[k].priority > clocal.registry[m].priority

(***************************************************************************)
(* The tap branch and the two install paths, under Spec.                   *)
(***************************************************************************)
\* The tap branch has run for a publisher whose key was not in the keyring
\* and could not be imported.
KeyImportFailed ==
    /\ tapenv.some
    /\ tapenv.val.pubinfo # "none"
    /\ ~tapenv.val.key_present
    /\ tapenv.val.fetch # "ok"

\* The call returned from inside the tap branch.
AbortedInTap == tapenv.some /\ pc = "done" /\ ~HasCall("post_install")

\* trace[i] = Call(f) comes before trace[j] = Call(g) for some i < j.
CallBefore(f, g) ==
    \E i \in 1..Len(trace), j \in 1..Len(trace) :
        i < j /\ trace[i] = Call(f) /\ trace[j] = Call(g)

\* C26: when the publisher key is absent and its import fails, the
\* failure is logged, gpg --verify is still run on PKGBUILD.sig when the
\* signature and the PKGBUILD are there, and the call aborts in the tap
\* branch only for what aborts it after a successful import: a signature
\* that is missing or does not verify, without --insecure.
C26_KeyImportFailureNotFatal ==
    KeyImportFailed =>
        /\ HasLog("[reap][gpg] Failed to import publisher key")
        /\ (tapenv.val.sig_exists /\ tapenv.val.pkgb_exists) =>
               CallBefore("gpg --recv-keys", "gpg --verify")
        /\ AbortedInTap =>
               /\ ~opts.insecure
               /\ ~(tapenv.val.sig_exists /\ tapenv.val.pkgb_exists /\ tapenv.val.verify = "ok")

\* The import failed, the signature was verified all the same, and the
\* call went on to its post_install hook.
C26_Witness ==
    /\ KeyImportFailed
    /\ path = "primary"
    /\ ~opts.insecure
    /\ HasLog("PKGBUILD signature verified")
    /\ HasCall("post_install")

\* The operations of a call that are visible outside it: the hooks, the
\* resolution, the tap verification, the backend installs, the backup
\* snapshot, the rollback and the PKGBUILD diff.
VisibleCalls ==
    { Call(f) : f \in { "pre_install", "resolve_package_source", "ensure_tap_cloned",
                        "get_publisher_info", "gpg --list-keys", "gpg --recv-keys",
                        "gpg --verify", "pacman::install", "git clone", "makepkg",
                        "remove_dir_all", "flatpak::install_flatpak", "post_install",
                        "backup_package_state", "utils::rollback", "show_pkgbuild_diff" } }

VisibleOps == SelectSeq(trace, LAMBDA e : e \in VisibleCalls)

\* The active profile sets neither strict_signatures nor fast_mode.
NoOverrides == overlay.strict_signatures = None /\ overlay.fast_mode = None

\* The visible operations close with the backup snapshot and then the
\* PKGBUILD diff, as those of install_with_priority always do (437-445).
ClosesWithBackupAndDiff ==
    LET v == VisibleOps
    IN  /\ Len(v) >= 2
        /\ v[Len(v) - 1] = Call("backup_package_state")
        /\ v[Len(v)] = Call("show_pkgbuild_diff")

\* C25: with a profile that sets no overrides, the visible operations of a
\* call are the same whichever of install_with_priority and
\* install_with_priority_enhanced ran; the two share every step up to the
\* post_install hook or the rollback, so the sequences are the same when
\* both close with the backup snapshot and then the PKGBUILD diff.
C25_EnhancedEqualsPrimary ==
    (pc = "done" /\ ~AbortedInTap /\ (path = "enhanced" => NoOverrides)) =>
        ClosesWithBackupAndDiff

(***************************************************************************)
(* The success lines and the hooks of one install call, under Spec.        *)
(***************************************************************************)
\* The lines that report an install as done (391, 405).
SuccessLines == { "[ok] Installed from AUR", "[ok] Installed from Pacman" }

\* C31: in install_with_priority, a line '[ok] Installed <pkg> from AUR' or
\* 'from Pacman' is in the log only if the backend install of the package
\* succeeded; when install_aur_native returned an error there is no such line.
C31_SuccessMarkersImplySuccess ==
    (path = "primary" /\ \E line \in SuccessLines : HasLog(line)) => backend = "ok"

\* How many entries of the trace are calls of f.
CallCount(f) == Len(SelectSeq(trace, LAMBDA e : e = Call(f)))

\* A return statement of the tap branch was taken (338, 357, 368, 382): the
\* publisher is unknown, or the signature is missing or not verified, and
\* insecure is not set.
TapGateAborted ==
    /\ tapenv.some
    /\ ~opts.insecure
    /\ (tapenv.val.pubinfo = "none" \/ SignatureMissingOrInvalid(tapenv.val))

\* C32: in install_with_priority the pre_install hook is invoked exactly once
\* and before the resolution; the post_install hook is invoked at most once,
\* after pre_install and after every backend install step, and a returned
\* call has invoked it exactly when the resolution succeeded and the tap
\* verification did not abort.
C32_HookPairing ==
    path = "primary" =>
        /\ CallCount("pre_install") = (IF pc = "pre_install" THEN 0 ELSE 1)
        /\ ~CallBefore("resolve_package_source", "pre_install")
        /\ CallCount("post_install") <= 1
        /\ ~CallBefore("post_install", "pre_install")
        /\ \A i, j \in 1..Len(trace) :
              (trace[i] = Call("post_install") /\ trace[j] \in MutatingCalls) => j < i
        /\ HasCall("post_install") => HasCall("pre_install")
        /\ pc = "done" =>
              (HasCall("post_install") <=> (resolved.some /\ ~TapGateAborted))

\* A returned call of install_with_priority that built from the AUR and ran
\* both hooks.
C32_Witness ==
    /\ path = "primary"
    /\ pc = "done"
    /\ resolved.some
    /\ resolved.val.source = Aur
    /\ HasCall("makepkg")
    /\ CallCount("pre_install") = 1
    /\ CallCount("post_install") = 1

\* C33: in the tap branch of both install paths a line holding 'Aborting
\* install' is in the log only of a call that aborts: the branch returned
\* and no post_install hook runs; a call that goes on because insecure is
\* set never has such a line.
C33_AbortMessagesImplyAbort ==
    (\E line \in AbortHintLines : HasLog(line)) =>
        /\ TapGateAborted
        /\ ~HasLog("Continuing install due to --insecure.")
        /\ ~HasCall("post_install")

(***************************************************************************)
(* What Ok means, under SpecAur.                                           *)
(***************************************************************************)
\* C34: for every option bundle, insecure = true included, install_aur_native
\* returns Ok only if makepkg was invoked for the package and exited
\* successfully.
C34_OkMeansInstalled ==
    \A c \in Callers :
        (Returned(c) /\ acall[c].ret = "ok") =>
            (Did(c, "makepkg") /\ acall[c].makepkg = "ok")

(***************************************************************************)
(* The source the enhanced path scores and the source it installs from,    *)
(* under Spec.                                                             *)
(***************************************************************************)
\* C35: in install_with_priority_enhanced the source on which the trust
\* score and the strict-signature check were computed is the source
\* resolve_package_source then selects; stated for the packages a tap
\* provides, where what the two functions find in the AUR, the binary repos
\* and Flatpak has no part in the selection.
C35_TrustScoredForInstalledSource ==
    (path = "enhanced" /\ resolved.some /\ resolved.val.tap.some) =>
        overlay.source = resolved.val.source

(***************************************************************************)
(* The update check and the upgrade, under SpecCli.                        *)
(***************************************************************************)
\* The packages handle_update reported as updatable.
ReportedUpdatable ==
    { clocal.updates_available[x].pkg : x \in 1..Len(clocal.updates_available) }

\* The packages the scan of handle_upgrade pushes to to_upgrade when the
\* config, the AUR and pacman answer for each package what they answered
\* to handle_update.
UpgradeWouldSelect ==
    { clocal.seen[x].pkg :
        x \in { y \in 1..Len(clocal.seen) :
                  in_upgrade_set(clocal.seen[y].ignored, clocal.seen[y].remote,
                                 clocal.seen[y].local) } }

\* C36: for every list of installed AUR packages, ignore list, local
\* versions (unknown included) and remote versions, the packages
\* handle_update reports as updatable are the packages handle_upgrade
\* selects for upgrade.
C36_UpdateAndUpgradeAgree ==
    (cli.kind = "handle_update" /\ cpc = "done") => ReportedUpdatable = UpgradeWouldSelect

\* C37: detect_source with binary_only = true returns a BinaryRepo source or
\* nothing, and the Install command of handle_cli given --binary-only does
\* not invoke install_aur_native.
C37_BinaryOnlyHonoured ==
    (cli.kind = "Install" /\ cli.binary_only) =>
        /\ clocal.detected.some => clocal.detected.val.kind = "BinaryRepo"
        /\ ~AurNativeCalled

(***************************************************************************)
(* Zero parallelism, under SpecParallelism.                                *)
(***************************************************************************)
\* handle_install_parallel was called with max_parallel = 0 and a list that
\* is not empty: no task is ever spawned or started and the call does not
\* return.
ZeroPermitsBlock ==
    (bulk = "handle_install_parallel" /\ cfg_parallel = 0 /\ npkgs >= 1) =>
        /\ \A t \in 1..npkgs : tstate[t] = "unspawned"
        /\ mainpc = "loop"

\* handle_install_parallel returns only where handle_upgrade is let go on.
ReturnsOnlyWithPermits ==
    mainpc = "returned" => handle_install_parallel_returns(npkgs, cfg_parallel)

ZeroParallelUpgrade ==
    cli.kind = "handle_upgrade" /\ cli.parallel /\ cli.config_parallel = 0

\* C38 as stated: handle_install_parallel with max_parallel = 0 and a
\* non-empty list starts no task and never returns, and handle_upgrade with
\* parallel = true and config.parallel = 0 never completes.
C38_ZeroParallelismNeverCompletes ==
    /\ ZeroPermitsBlock
    /\ ReturnsOnlyWithPermits
    /\ ZeroParallelUpgrade => cret = "none"

\* C38, amended: handle_install_parallel with max_parallel = 0 and a
\* non-empty list starts no task and never returns, and handle_upgrade with
\* parallel = true and config.parallel = 0 completes only when its scan
\* selected no package; with a package selected it calls
\* handle_install_parallel and never completes.
C38_ZeroParallelismBlocks ==
    /\ ZeroPermitsBlock
    /\ ReturnsOnlyWithPermits
    /\ (ZeroParallelUpgrade /\ cret # "none") => clocal.to_upgrade = << >>
    /\ (ZeroParallelUpgrade /\ cpc # "scan" /\ clocal.to_upgrade # << >>) =>
          /\ cpc \in {"install", "blocked"}
          /\ cpc = "blocked" <=>
                Contains(cout, Ev("call", "handle_install_parallel", "*"))

\* handle_upgrade with parallel = true and config.parallel = 0 selected a
\* package, called handle_install_parallel and is waiting for it.
C38_Witness ==
    /\ ZeroParallelUpgrade
    /\ clocal.to_upgrade # << >>
    /\ Contains(cout, Ev("call", "handle_install_parallel", "*"))
    /\ cpc = "blocked"
    /\ cret = "none"

====
